---- MODULE Spec2Model ----
(***************************************************************************)
(* Model of the satpi upload queue: the queue file /tmp/upload-queue, the  *)
(* producers that append to it, and process_upload_queue of the four       *)
(* uploader scripts (data-uploader-fixed.py, data-uploader.py,             *)
(* ssh-uploader.py, simple-satellite-uploader.py).                         *)
(*                                                                         *)
(* The queue file is a sequence of tokens: a token is a field text, the    *)
(* field separator "|", a blank " ", the newline character NL, or the two  *)
(* characters backslash-n (BSN) that ssh-uploader and                      *)
(* simple-satellite-uploader write instead of a newline.                   *)
(***************************************************************************)
EXTENDS Integers, Sequences, FiniteSets

\* ------------------------------------------------------------------ bounds
\* Most physical lines the queue file holds (initially and with appends).
MaxLines == 2

\* ------------------------------------------------------------------ text
NL == "\n"
BSN == "\\n"
PIPE == "|"
SPACE == " "
Whitespace == {NL, SPACE}

\* Index of the first occurrence of token t in s, 0 when there is none.
RECURSIVE FindFrom(_, _, _)
FindFrom(s, t, i) ==
    IF i > Len(s) THEN 0
    ELSE IF s[i] = t THEN i
    ELSE FindFrom(s, t, i + 1)

Find(s, t) == FindFrom(s, t, 1)

\* f.readlines(): the text cut after every newline, the newline kept; a last
\* piece without newline is a line too.
RECURSIVE readlines(_)
readlines(s) ==
    IF s = <<>> THEN <<>>
    ELSE LET k == Find(s, NL)
         IN IF k = 0 THEN <<s>>
            ELSE <<SubSeq(s, 1, k)>> \o readlines(SubSeq(s, k + 1, Len(s)))

\* str.strip(): leading and trailing whitespace removed.
RECURSIVE lstrip(_)
lstrip(s) ==
    IF s # <<>> /\ Head(s) \in Whitespace THEN lstrip(Tail(s)) ELSE s

RECURSIVE rstrip(_)
rstrip(s) ==
    IF s # <<>> /\ s[Len(s)] \in Whitespace
    THEN rstrip(SubSeq(s, 1, Len(s) - 1))
    ELSE s

strip(s) == rstrip(lstrip(s))

\* line.split('|'): the fields between the separators (one field when there
\* is no separator).
RECURSIVE split(_)
split(s) ==
    LET k == Find(s, PIPE)
    IN IF k = 0 THEN <<s>>
       ELSE <<SubSeq(s, 1, k - 1)>> \o split(SubSeq(s, k + 1, Len(s)))

\* The non-blank stripped lines of a text, in order: what the for loop of
\* process_upload_queue goes on to parse.
RECURSIVE NonBlank(_)
NonBlank(ls) ==
    IF ls = <<>> THEN <<>>
    ELSE LET l == strip(Head(ls))
         IN IF l = <<>> THEN NonBlank(Tail(ls))
            ELSE <<l>> \o NonBlank(Tail(ls))

LoadAll(text) == NonBlank(readlines(text))

\* Bytes read per chunk by calculate_file_hash (4096 in the code, scaled
\* down with the files), longest file content, and calls of it per run.
ChunkSize == 2
MaxContent == 3
MaxHashCalls == 2

\* Most earlier cycles an entry is recorded to have failed in; the record
\* stays at this number from then on.
MaxFailedCycles == 2

\* ------------------------------------------------------------------ files
Variants == {"fixed", "data", "ssh", "simple"}

Paths == {"a.raw", "b.png"}

\* File sizes in MB a capture can have: below every limit, or above the
\* upload limits of data-uploader-fixed (50) and data-uploader (100).
SizesMB == {1, 200}

\* The captures of a station that also keeps .gif and .bmp images.
AllPaths == Paths \cup {"c.gif", "d.bmp"}

\* Last extension of a path, lower-cased (os.path.splitext(p)[1].lower()).
Ext(p) ==
    CASE p = "a.raw" -> ".raw"
      [] p = "b.png" -> ".png"
      [] p = "c.gif" -> ".gif"
      [] p = "d.bmp" -> ".bmp"
      [] p = "x.raw" -> ".raw"
      [] p = "dir.raw" -> ".raw"
      [] OTHER -> ""

\* A queue line as the producer writes it, without its newline.
Entry3(p) == <<p, PIPE, "NOAA-18", PIPE, "T0">>
Entry4(p) == Entry3(p) \o <<PIPE, "RAW">>
Malformed == <<"a.raw", PIPE, "NOAA-18">>
Blank == <<SPACE>>

WellFormedLines == {Entry3(p) : p \in Paths} \cup {Entry4("a.raw")}
QueueLines == WellFormedLines \cup {Malformed, Blank}

LineWidth == Len(Entry4("a.raw")) + 1
MaxQueueLen == MaxLines * LineWidth

\* All sequences over S of length at most n.
RECURSIVE SeqsUpTo(_, _)
SeqsUpTo(S, n) ==
    IF n = 0 THEN {<<>>}
    ELSE {<<>>} \cup {<<x>> \o s : x \in S, s \in SeqsUpTo(S, n - 1)}

\* The text of a file that holds the given lines, each ended by a newline.
RECURSIVE Terminated(_)
Terminated(ls) ==
    IF ls = <<>> THEN <<>> ELSE Head(ls) \o <<NL>> \o Terminated(Tail(ls))

\* ------------------------------------------------------------------ policy
\* Faulty variant of ValidFieldCount: no line is rejected for its field count.
AnyFieldCount(v, n) == TRUE

\* len(parts) < 3 (fixed, ssh, simple) and len(parts) != 3 (data-uploader)
\* reject the line; this is the accepted field count.
ValidFieldCount(v, n) == IF v = "data" THEN n = 3 ELSE n >= 3

\* Faulty variant of RetryAttempts: one call, no retry.
RetryOnce(v) == 1

\* Calls of the upload function one entry gets in one cycle.
RetryAttempts(v) ==
    CASE v = "fixed" -> 3
      [] v = "ssh" -> 2
      [] OTHER -> 1

\* Faulty variant of DelayAfterFailure: every failed call is followed by
\* the delay.
DelayAlways(v, a) == TRUE

\* if attempt < retry_attempts - 1: whether the delay follows the failed
\* call number a (from 0).
DelayAfterFailure(v, a) == a < RetryAttempts(v) - 1

\* Faulty variant of RetryDelay: the delay grows with the number of earlier
\* cycles the entry failed in.
DelayWithBackoff(v, failedBefore) ==
    (IF v = "fixed" THEN 60 ELSE 30) * (failedBefore + 1)

\* Seconds the retry loop sleeps between two upload calls:
\* SERVER_CONFIG["retry_delay_seconds"] in data-uploader-fixed, 30 in
\* ssh-uploader, whatever the number of earlier cycles the entry failed in.
RetryDelay(v, failedBefore) == IF v = "fixed" THEN 60 ELSE 30

\* Upload size limit in MB (ssh-uploader: the 1 GB limit of upload_file_ssh).
MaxFileSizeMB(v) ==
    CASE v = "fixed" -> 50
      [] v = "data" -> 100
      [] OTHER -> 1000

\* get_file_info's "is_image".
is_image(p) == Ext(p) \in {".png", ".jpg", ".jpeg", ".gif", ".bmp"}

\* get_upload_path(filepath) = SERVER_PATHS['images'] in ssh-uploader.
SshImage(p) == Ext(p) \in {".jpg", ".jpeg", ".png", ".gif"}

\* The order upload_file tries its methods in.
upload_methods == <<"FTP", "Web">>

\* Faulty variant of StartMethods: a call that follows a failed one resumes
\* at the method that failed last.
ResumeMethods(prev) ==
    IF prev = <<>> THEN upload_methods ELSE <<prev[Len(prev)].m>>

\* for method_name, method_func in upload_methods: the methods a call of
\* upload_file goes through, whatever the previous call for the entry
\* logged (prev).
StartMethods(prev) == upload_methods

\* Faulty variant of ReturnOnSuccess: the method loop never returns early.
ReturnNever(ok) == FALSE

\* upload_file returns True as soon as a method returned True.
ReturnOnSuccess(ok) == ok

ftp_configs == <<"boatwizards.com", "ftp.boatwizards.com">>

\* What one FTP host can do: fail at a step (connect, login, both cwd
\* calls, the store), or complete the store.
FtpOutcomes == {"connect", "login", "cwd", "store", "done"}

\* ftp.quit() after the store: the reply to QUIT arrives, or the call raises.
QuitOutcomes == {"ok", "error"}

\* Faulty variant of Endpoints: the root URL is posted to first.
EndpointsRootFirst(p) ==
    IF is_image(p) THEN <<"/", "raw/", "images/">> ELSE <<"/", "raw/">>

\* The URLs upload_via_direct_web posts to, in order.
Endpoints(p) ==
    IF is_image(p) THEN <<"images/", "raw/", "/">> ELSE <<"raw/", "/">>

HttpStatuses == {200, 201, 204, 404, 500}

\* A POST either raises (no response) or answers with a status; json tells
\* whether the body parses as JSON (data-uploader calls response.json()).
HttpOutcomes ==
    {[exc |-> FALSE, status |-> s, json |-> j] : s \in HttpStatuses, j \in BOOLEAN}
    \cup {[exc |-> TRUE, status |-> 0, json |-> FALSE]}

\* _try_web_upload's verdict on a response.
WebSuccess(r) == ~r.exc /\ r.status \in {200, 201, 202}

\* data-uploader's upload_file: status 200 and a body response.json() parses.
DataSuccess(r) == ~r.exc /\ r.status = 200 /\ r.json

ScpOutcomes == {"ok", "nonzero", "timeout"}

\* The ssh command that sets the "latest" link: it exits 0 or not, runs into
\* its 30 s timeout (TimeoutExpired), or cannot be started (OSError).
LinkOutcomes == {"ok", "nonzero", "timeout", "error"}

\* upload_file_ssh: the copy must exit 0; for an image the "latest" link
\* command then runs inside the same try, where a TimeoutExpired and any
\* other exception are caught by the handlers that return False; its exit
\* code is not looked at.
SshSuccess(p, exists, sz, scp, link) ==
    /\ exists
    /\ sz <= MaxFileSizeMB("ssh")
    /\ scp = "ok"
    /\ (SshImage(p) => link \notin {"timeout", "error"})

\* Faulty variant of DeleteAfterUpload: a delivered file is never deleted.
NeverDelete(v, p, cleanup, sz) == FALSE

\* Whether the delivered file is deleted (the os.remove after a success).
DeleteAfterUpload(v, p, cleanup, sz) ==
    CASE v = "fixed" -> Ext(p) \notin {".png", ".jpg", ".jpeg"}
      [] v = "data" -> cleanup
      [] v = "ssh" -> Ext(p) = ".raw" /\ sz > 100
      [] OTHER -> FALSE

\* Faulty variant of LineTerminator: every variant writes the two characters.
TerminatorBackslashN(v) == BSN

\* The text appended to each remaining line by the write-back: '\n' in
\* data-uploader-fixed and data-uploader, the two characters '\\n' in
\* ssh-uploader and simple-satellite-uploader.
LineTerminator(v) == IF v \in {"fixed", "data"} THEN NL ELSE BSN

\* f.writelines(line + terminator for line in remaining_lines)
RECURSIVE writelines(_, _)
writelines(rem, v) ==
    IF rem = <<>> THEN <<>>
    ELSE Head(rem) \o <<LineTerminator(v)>> \o writelines(Tail(rem), v)

\* Faulty variant of KeepLine: every processed line is written back.
KeepLineAlways(rem, l, delivered) == Append(rem, l)

\* remaining_lines after an entry ended with the given result.
KeepLine(rem, l, delivered) == IF delivered THEN rem ELSE Append(rem, l)

\* Faulty variant of NextPosition: the loop goes on two lines further.
SkipsALine(i) == i + 2

\* for line in lines: the position of the loop after the one at i.
NextPosition(i) == i + 1

\* Faulty variant of PathExists: the existence test always passes.
PathExistsAlways(p, fs) == TRUE

\* os.path.exists(filepath) at the head of an entry's processing.
PathExists(p, fs) == p \in fs

\* The path field of a parsed line as a file name; a field of several tokens
\* names no file of the model.
PathField(parts) == IF Len(parts[1]) = 1 THEN parts[1][1] ELSE "?"

\* Faulty variant of OpenForRead: the file is opened in a truncating mode.
OpenTruncating(text) == <<>>

\* The queue file after open(UPLOAD_QUEUE, 'r') and f.readlines(): mode 'r'
\* leaves the text as it is.
OpenForRead(text) == text

\* The paths calculate_file_hash is called on.
HashPaths == {"x.raw", "y.raw"}

\* Bytes and modification times a file can have.
Bytes == {0, 1}
Mtimes == {1, 2}

\* A file: its content and the metadata the file system keeps on it.
HashFiles ==
    [mtime : Mtimes, content : SeqsUpTo(Bytes, MaxContent), readable : BOOLEAN]

\* iter(lambda: f.read(4096), b""): the content in chunks of ChunkSize bytes,
\* the last one shorter, ended by the empty read.
RECURSIVE read_chunks(_)
read_chunks(content) ==
    IF content = <<>> THEN <<>>
    ELSE IF Len(content) <= ChunkSize THEN <<content>>
    ELSE <<SubSeq(content, 1, ChunkSize)>>
         \o read_chunks(SubSeq(content, ChunkSize + 1, Len(content)))

\* sha256_hash.update(chunk) for each chunk in turn: the hash object has
\* absorbed the bytes fed to it so far.
RECURSIVE update(_, _)
update(h, chunks) ==
    IF chunks = <<>> THEN h ELSE update(h \o Head(chunks), Tail(chunks))

\* sha256_hash.hexdigest(): a collision-free digest of the absorbed bytes
\* (the bijective base-3 number with digits byte + 1).
RECURSIVE hexdigest(_)
hexdigest(h) ==
    IF h = <<>> THEN 0
    ELSE 3 * hexdigest(SubSeq(h, 1, Len(h) - 1)) + h[Len(h)] + 1

\* The None calculate_file_hash returns when the file cannot be read.
None == -1

\* Faulty variant of calculate_file_hash: the mtime enters the digest.
HashWithMtime(p, fs) ==
    IF ~fs[p].readable THEN None
    ELSE hexdigest(update(<<fs[p].mtime - 1>>, read_chunks(fs[p].content)))

calculate_file_hash(p, fs) ==
    IF ~fs[p].readable THEN None
    ELSE hexdigest(update(<<>>, read_chunks(fs[p].content)))

\* get_file_info: None (the empty sequence here) when os.stat raises, else
\* the dictionary, whose "hash" is whatever calculate_file_hash returned.
\* The files of fs are those that exist; os.stat needs no read permission.
get_file_info(p, fs) ==
    IF p \notin DOMAIN fs THEN <<>>
    ELSE <<[size |-> Len(fs[p].content),
            modified |-> fs[p].mtime,
            mime_type |-> "application/octet-stream",
            hash |-> calculate_file_hash(p, fs),
            is_image |-> is_image(p)]>>

\* prepare_metadata of data-uploader, its file fields: None when os.stat
\* raises, else the dictionary with "file_hash" as calculate_file_hash
\* returned it.
prepare_metadata(p, fs) ==
    IF p \notin DOMAIN fs THEN <<>>
    ELSE <<[file_size |-> Len(fs[p].content),
            file_hash |-> calculate_file_hash(p, fs)]>>

\* Calls of the metadata extractors per run.
MaxInfoCalls == 2

\* The statuses a server can answer with.
AllStatuses == 100..599

\* The responses a verdict is asked on.
AllResponses ==
    {[exc |-> FALSE, status |-> st, json |-> j] : st \in AllStatuses, j \in BOOLEAN}
    \cup {[exc |-> TRUE, status |-> 0, json |-> FALSE]}

\* ------------------------------------------------------------------ state
VARIABLES
    variant,               \* which script runs
    cleanup_after_upload,  \* config["system"]["cleanup_after_upload"] (data-uploader)
    size,                  \* size in MB of each path's file
    queue,                 \* text of /tmp/upload-queue
    queueExists,           \* os.path.exists(UPLOAD_QUEUE)
    files,                 \* paths that exist on disk
    pc,                    \* position of the orchestrator
    lines,                 \* the snapshot: f.readlines()
    idx,                   \* position of the for loop in lines (from 1)
    line,                  \* the stripped line being processed
    filepath,              \* parts[0] of it
    remaining_lines,
    attempt,               \* the retry loop's counter
    success,
    methods,               \* methods upload_file has yet to try in this call
    host,                  \* position in ftp_configs (from 1)
    endpoints,             \* URLs upload_via_direct_web has yet to post to
    outcome,               \* per snapshot line, how its processing ended
    keptIdx,               \* snapshot positions of the lines in remaining_lines
    firstTry,              \* snapshot positions delivered by the first attempt
    escaped,               \* the exceptions that left a method of upload_file:
                           \* snapshot position, upload call and method
    callLog,               \* methods tried in the current upload call, with results
    passLog,               \* the callLog of every upload call made for the entry
    webLog,                \* endpoint posts made for the entry, with results
                           \* and the number of the upload call they belong to
    sleeps,                \* retry delays slept for the entry
    slept,                 \* seconds of retry delay slept for the entry
    appended,              \* lines producers appended since the last read or write
    clobbered,             \* lines appended between the read and the write-back
    store,                 \* the entries the queue holds by append / replace
    carried,               \* the lines the previous run of the script wrote
                           \* back, each with the number of runs that kept it
    removed,               \* paths removed out-of-band so far
    processed_count,       \* ssh-uploader, simple-satellite-uploader
    queueAtStart,          \* text of the queue file when the pass began
    deleted,               \* paths the pass deleted after a delivery
    pending,               \* undelivered snapshot lines of the pass a kill ended
    daemon,                \* run_daemon: "off", "running" or "stopped"
    stopCause,             \* the exception that ended run_daemon
    old,                   \* paths whose mtime is before cleanup's cutoff
    scan,                  \* the cleanup scan: directories and names still to
                           \* visit, names visited, removals tried and failed
    peer,                  \* a second orchestrator process on the same queue
                           \* file: its position, snapshot, kept lines and outcomes
    response,              \* the HTTP response a verdict is asked on
    verdict,               \* the verdicts given on it
    fsys,                  \* the files calculate_file_hash is called on
    hashLog,               \* the calls of calculate_file_hash, with results
    infoLog                \* the calls of the metadata extractors and of the
                           \* post that uses their result

config == <<variant, cleanup_after_upload, size>>
disk == <<queue, queueExists, files>>
locals == <<lines, idx, line, filepath, remaining_lines, attempt, success,
            methods, host, endpoints>>
entryHist == <<callLog, passLog, webLog, sleeps, slept, slept>>
cycleHist == <<outcome, keptIdx, firstTry, escaped>>
queueHist == <<appended, clobbered, store, carried, removed>>
passHist == <<processed_count, queueAtStart, deleted, pending>>
daemonVars == <<daemon, stopCause, old, scan, peer>>
pure == <<response, verdict, fsys, hashLog, infoLog>>
vars == <<config, disk, pc, locals, entryHist, cycleHist, queueHist, passHist,
          daemonVars, pure>>

\* The number of earlier runs that wrote the snapshot line at position i
\* back: the write-back put the lines it kept at the head of the file.
PrevCycles(i) ==
    IF /\ i <= Len(carried)
       /\ i <= Len(lines)
       /\ strip(lines[i]) = carried[i].line
    THEN carried[i].cycles
    ELSE 0

\* The lines this run wrote back, each with the runs that kept it so far.
KeptByRun ==
    [j \in 1..Len(remaining_lines) |->
        [line |-> remaining_lines[j],
         cycles |-> IF PrevCycles(keptIdx[j]) < MaxFailedCycles
                    THEN PrevCycles(keptIdx[j]) + 1
                    ELSE MaxFailedCycles]]

\* No cleanup scan is under way.
NoScan ==
    [dirs |-> <<>>, listing |-> {}, examined |-> {}, attempted |-> {},
     denied |-> {}, deleted |-> {}, aborted |-> FALSE]

\* No second process runs.
NoPeer ==
    [pc |-> "idle", lines |-> <<>>, idx |-> 1, remaining_lines |-> <<>>,
     outcome |-> <<>>, began |-> "", ended |-> ""]

InitialQueues == {Terminated(ls) : ls \in SeqsUpTo(QueueLines, MaxLines)}

\* The orchestrator before its first pass: no locals, no history.
StartOfRun ==
    /\ pc = "idle"
    /\ lines = <<>>
    /\ idx = 1
    /\ line = <<>>
    /\ filepath = ""
    /\ remaining_lines = <<>>
    /\ attempt = 0
    /\ success = FALSE
    /\ methods = <<>>
    /\ host = 1
    /\ endpoints = <<>>
    /\ outcome = <<>>
    /\ keptIdx = <<>>
    /\ firstTry = {}
    /\ escaped = {}
    /\ callLog = <<>>
    /\ passLog = <<>>
    /\ webLog = <<>>
    /\ sleeps = 0
    /\ slept = 0
    /\ appended = <<>>
    /\ clobbered = <<>>
    /\ store = LoadAll(queue)
    /\ carried = <<>>
    /\ removed = {}
    /\ processed_count = 0
    /\ queueAtStart = <<>>
    /\ deleted = {}
    /\ pending = <<>>
    /\ stopCause = "none"
    /\ scan = NoScan
    /\ peer = NoPeer

\* No verdict is asked and no hash computed.
NoPureCall ==
    /\ response = [exc |-> TRUE, status |-> 0, json |-> FALSE]
    /\ verdict = <<>>
    /\ fsys = [p \in HashPaths |-> [mtime |-> 1, content |-> <<>>, readable |-> TRUE]]
    /\ hashLog = <<>>
    /\ infoLog = <<>>

\* process_upload_queue invoked once per run (main() without a command).
Init ==
    /\ variant \in Variants
    /\ cleanup_after_upload \in (IF variant = "data" THEN BOOLEAN ELSE {TRUE})
    /\ size \in {[p \in Paths |-> IF p = "a.raw" THEN s ELSE 1] : s \in SizesMB}
    /\ queue \in InitialQueues
    /\ queueExists \in (IF queue = <<>> THEN BOOLEAN ELSE {TRUE})
    /\ files = Paths
    /\ old = [p \in Paths |-> FALSE]
    /\ daemon = "off"
    /\ StartOfRun
    /\ NoPureCall

\* ------------------------------------------------------------------ environment
\* A producer appends one well-formed line, with its newline (echo >> queue).
Produce ==
    \E l \in WellFormedLines :
        /\ Len(readlines(queue)) < MaxLines
        /\ Len(queue) + Len(l) + 1 <= MaxQueueLen
        /\ queue' = queue \o l \o <<NL>>
        /\ queueExists' = TRUE
        /\ appended' = Append(appended, l)
        /\ store' = Append(store, l)
        /\ UNCHANGED <<pure, daemonVars, passHist, config, files, pc, locals,
                       entryHist, cycleHist, clobbered, carried, removed>>

\* A file is removed out-of-band.
ExternalRemove ==
    \E p \in files :
        /\ files' = files \ {p}
        /\ removed' = removed \cup {p}
        /\ UNCHANGED <<pure, daemonVars, passHist, config, queue, queueExists,
                       pc, locals, entryHist, cycleHist, appended, clobbered,
                       store, carried>>

\* ------------------------------------------------------------------ process_upload_queue
FreshEntry ==
    /\ line' = <<>>
    /\ filepath' = ""
    /\ attempt' = 0
    /\ success' = FALSE
    /\ methods' = <<>>
    /\ host' = 1
    /\ endpoints' = <<>>

\* if not os.path.exists(UPLOAD_QUEUE): return
NoQueue ==
    /\ pc = "idle"
    /\ ~queueExists
    /\ pc' = "noqueue"
    /\ UNCHANGED <<pure, daemonVars, passHist, config, disk, locals,
                   entryHist, cycleHist, queueHist>>

\* lines = f.readlines(); remaining_lines = []
ReadQueue ==
    /\ pc = "idle"
    /\ queueExists
    /\ lines' = readlines(queue)
    /\ queue' = OpenForRead(queue)
    /\ remaining_lines' = <<>>
    /\ processed_count' = 0
    /\ idx' = 1
    /\ pc' = "loop"
    /\ appended' = <<>>
    /\ queueAtStart' = queue
    /\ deleted' = {}
    /\ UNCHANGED <<pure, daemonVars, pending, config, queueExists, files,
                   line, filepath, attempt, success, methods, host, endpoints,
                   entryHist, cycleHist, clobbered, store, carried, removed>>

\* The entry of the loop at position idx ends without an upload.
SkipLine(how) ==
    /\ outcome' = Append(outcome, how)
    /\ idx' = NextPosition(idx)
    /\ UNCHANGED <<pure, daemonVars, passHist, config, disk, pc, lines, line,
                   filepath, remaining_lines, attempt, success, methods, host,
                   endpoints, entryHist, keptIdx, firstTry, escaped, queueHist>>

\* line = line.strip(); if not line: continue
SkipBlank ==
    /\ pc = "loop"
    /\ idx <= Len(lines)
    /\ strip(lines[idx]) = <<>>
    /\ SkipLine("blank")

\* if len(parts) < 3: continue        (data-uploader: len(parts) != 3)
DropInvalid ==
    /\ pc = "loop"
    /\ idx <= Len(lines)
    /\ strip(lines[idx]) # <<>>
    /\ ~ValidFieldCount(variant, Len(split(strip(lines[idx]))))
    /\ SkipLine("invalid")

\* if not os.path.exists(filepath): continue
DropMissing ==
    /\ pc = "loop"
    /\ idx <= Len(lines)
    /\ strip(lines[idx]) # <<>>
    /\ ValidFieldCount(variant, Len(split(strip(lines[idx]))))
    /\ ~PathExists(PathField(split(strip(lines[idx]))), files)
    /\ SkipLine("missing")

\* The entry is valid and its file exists: the upload part begins.
BeginEntry ==
    /\ pc = "loop"
    /\ idx <= Len(lines)
    /\ strip(lines[idx]) # <<>>
    /\ ValidFieldCount(variant, Len(split(strip(lines[idx]))))
    /\ PathExists(PathField(split(strip(lines[idx]))), files)
    /\ line' = strip(lines[idx])
    /\ filepath' = PathField(split(strip(lines[idx])))
    /\ attempt' = 0
    /\ success' = FALSE
    /\ pc' = CASE variant = "data" -> "meta"
               [] variant = "simple" -> "simple"
               [] OTHER -> "call"
    /\ callLog' = <<>>
    /\ passLog' = <<>>
    /\ webLog' = <<>>
    /\ sleeps' = 0
    /\ slept' = 0
    /\ UNCHANGED <<pure, daemonVars, passHist, config, disk, lines, idx,
                   remaining_lines, methods, host, endpoints, cycleHist,
                   queueHist>>

\* The upload call returned ok to the retry loop (for attempt in range(R)):
\* a success breaks the loop, a failure sleeps unless it was the last attempt.
RetryLoop(ok, clog) ==
    /\ success' = ok
    /\ callLog' = clog
    /\ passLog' = Append(passLog, clog)
    /\ pc' = IF ok THEN "finish"
             ELSE IF DelayAfterFailure(variant, attempt) THEN "sleep"
             ELSE "finish"

\* Faulty variant of NextAttempt: the retry loop never counts (a while loop
\* that goes on until a call succeeds).
RepeatAttempt(a) == a

\* for attempt in range(R): the value of attempt in the next iteration.
NextAttempt(a) == a + 1

\* time.sleep(retry delay), then the next iteration of the retry loop, if
\* range(R) has one.
RetrySleep ==
    /\ pc = "sleep"
    /\ attempt' = NextAttempt(attempt)
    /\ sleeps' = sleeps + 1
    /\ slept' = slept + RetryDelay(variant, PrevCycles(idx))
    /\ pc' = IF NextAttempt(attempt) < RetryAttempts(variant) THEN "call"
             ELSE "finish"
    /\ UNCHANGED <<pure, daemonVars, passHist, config, disk, lines, idx, line,
                   filepath, remaining_lines, success, methods, host,
                   endpoints, callLog, passLog, webLog, cycleHist, queueHist>>

\* ------------------------------------------------------------------ upload_file (data-uploader-fixed)
MethodPc(m) == IF m = "FTP" THEN "ftp" ELSE "web"

\* The method at the head of methods returned ok to the loop of upload_file.
MethodDone(ok) ==
    LET log == Append(callLog, [m |-> Head(methods), ok |-> ok])
    IN /\ host' = 1
       /\ endpoints' = <<>>
       /\ IF ReturnOnSuccess(ok) \/ Len(methods) = 1
          THEN /\ RetryLoop(ReturnOnSuccess(ok), log)
               /\ methods' = <<>>
          ELSE /\ methods' = Tail(methods)
               /\ pc' = MethodPc(Head(Tail(methods)))
               /\ callLog' = log
               /\ UNCHANGED <<success, passLog>>

\* if not os.path.exists(filepath): return False; else the method loop starts.
UploadFileEnter ==
    /\ pc = "call"
    /\ variant = "fixed"
    /\ IF filepath \notin files
       THEN /\ RetryLoop(FALSE, <<>>)
            /\ UNCHANGED methods
       ELSE /\ methods' = StartMethods(callLog)
            /\ pc' = MethodPc(Head(StartMethods(callLog)))
            /\ callLog' = <<>>
            /\ UNCHANGED <<success, passLog>>
    /\ UNCHANGED <<pure, daemonVars, passHist, config, disk, lines, idx, line,
                   filepath, remaining_lines, attempt, host, endpoints,
                   webLog, sleeps, slept, cycleHist, queueHist>>

\* upload_via_ftp: one host of ftp_configs up to the end of storbinary; any
\* exception moves to the next host. No size check is made.
FtpHost ==
    /\ pc = "ftp"
    /\ \E o \in FtpOutcomes :
         IF o = "done" /\ filepath \in files
         THEN /\ pc' = "ftpquit"
              /\ UNCHANGED <<host, success, methods, endpoints, callLog, passLog>>
         ELSE IF host < Len(ftp_configs)
              THEN /\ host' = host + 1
                   /\ UNCHANGED <<pc, success, methods, endpoints, callLog, passLog>>
              ELSE MethodDone(FALSE)
    /\ UNCHANGED <<pure, daemonVars, passHist, config, disk, lines, idx, line,
                   filepath, remaining_lines, attempt, webLog, sleeps, slept,
                   cycleHist, queueHist>>

\* ftp.quit() and return True; quit is inside the try of the host, so an
\* exception it raises moves to the next host like any other.
FtpQuit ==
    /\ pc = "ftpquit"
    /\ \E o \in QuitOutcomes :
         IF o = "ok"
         THEN MethodDone(TRUE)
         ELSE IF host < Len(ftp_configs)
              THEN /\ host' = host + 1
                   /\ pc' = "ftp"
                   /\ UNCHANGED <<success, methods, endpoints, callLog, passLog>>
              ELSE MethodDone(FALSE)
    /\ UNCHANGED <<pure, daemonVars, passHist, config, disk, lines, idx, line,
                   filepath, remaining_lines, attempt, webLog, sleeps, slept,
                   cycleHist, queueHist>>

\* upload_via_direct_web up to its first post: get_file_info (os.stat) and
\* the size check.
WebEnter ==
    /\ pc = "web"
    /\ IF filepath \notin files \/ size[filepath] > MaxFileSizeMB(variant)
       THEN MethodDone(FALSE)
       ELSE /\ endpoints' = Endpoints(filepath)
            /\ pc' = "endpoint"
            /\ UNCHANGED <<success, methods, host, callLog, passLog>>
    /\ UNCHANGED <<pure, daemonVars, passHist, config, disk, lines, idx, line,
                   filepath, remaining_lines, attempt, webLog, sleeps, slept,
                   cycleHist, queueHist>>

\* _try_web_upload on the next URL: open(filepath), post, test the status.
WebEndpoint ==
    /\ pc = "endpoint"
    /\ \E r \in HttpOutcomes :
         LET ok == filepath \in files /\ WebSuccess(r)
         IN /\ webLog' = Append(webLog, [url |-> Head(endpoints), ok |-> ok,
                                         call |-> Len(passLog) + 1])
            /\ IF ok
               THEN MethodDone(TRUE)
               ELSE IF Len(endpoints) > 1
                    THEN /\ endpoints' = Tail(endpoints)
                         /\ UNCHANGED <<pc, success, methods, host, callLog, passLog>>
                    ELSE MethodDone(FALSE)
    /\ UNCHANGED <<pure, daemonVars, passHist, config, disk, lines, idx, line,
                   filepath, remaining_lines, attempt, sleeps, slept, cycleHist,
                   queueHist>>

\* ------------------------------------------------------------------ upload_file_ssh (ssh-uploader)
\* upload_file_ssh up to the return of scp: the existence and size tests
\* and the copy. After the copy of an image exited 0 the link command
\* follows; every other call returns here.
SshUpload ==
    /\ pc = "call"
    /\ variant = "ssh"
    /\ \E scp \in ScpOutcomes :
         LET ok == SshSuccess(filepath, filepath \in files, size[filepath],
                              scp, "ok")
         IN IF ok /\ SshImage(filepath)
            THEN /\ pc' = "link"
                 /\ UNCHANGED <<success, callLog, passLog>>
            ELSE RetryLoop(ok, <<[m |-> "SCP", ok |-> ok]>>)
    /\ UNCHANGED <<pure, daemonVars, passHist, config, disk, lines, idx, line,
                   filepath, remaining_lines, attempt, methods, host,
                   endpoints, webLog, sleeps, slept, cycleHist, queueHist>>

\* subprocess.run(['ssh', SERVER_HOST, symlink_cmd], timeout=30), then
\* return True, inside the try of upload_file_ssh.
SshLink ==
    /\ pc = "link"
    /\ \E link \in LinkOutcomes :
         LET ok == SshSuccess(filepath, TRUE, size[filepath], "ok", link)
         IN RetryLoop(ok, <<[m |-> "SCP", ok |-> ok]>>)
    /\ UNCHANGED <<pure, daemonVars, passHist, config, disk, lines, idx, line,
                   filepath, remaining_lines, attempt, methods, host,
                   endpoints, webLog, sleeps, slept, cycleHist, queueHist>>

\* ------------------------------------------------------------------ data-uploader
\* An entry ends and the loop goes on with the next line.
EndEntry(how, delivered) ==
    /\ outcome' = Append(outcome, how)
    /\ remaining_lines' = KeepLine(remaining_lines, line, delivered)
    /\ keptIdx' = IF remaining_lines' = remaining_lines THEN keptIdx
                  ELSE Append(keptIdx, idx)
    /\ idx' = NextPosition(idx)
    /\ pc' = "loop"
    /\ FreshEntry

\* metadata = self.prepare_metadata(...): None when os.stat raises; the
\* line is then kept.
PrepareMetadata ==
    /\ pc = "meta"
    /\ IF filepath \notin files
       THEN /\ EndEntry("nometa", FALSE)
            /\ UNCHANGED <<firstTry, escaped>>
       ELSE /\ pc' = "post"
            /\ UNCHANGED <<locals, cycleHist>>
    /\ UNCHANGED <<pure, daemonVars, passHist, config, disk, lines, entryHist,
                   queueHist>>

\* upload_file(filepath, metadata): size check, open, one post.
UploadData ==
    /\ pc = "post"
    /\ \E r \in HttpOutcomes :
         LET ok == /\ size[filepath] <= MaxFileSizeMB(variant)
                   /\ filepath \in files
                   /\ DataSuccess(r)
         IN RetryLoop(ok, <<[m |-> "HTTP", ok |-> ok]>>)
    /\ UNCHANGED <<pure, daemonVars, passHist, config, disk, lines, idx, line,
                   filepath, remaining_lines, attempt, methods, host,
                   endpoints, webLog, sleeps, slept, cycleHist, queueHist>>

\* ------------------------------------------------------------------ simple-satellite-uploader
\* The report and the analysis catch their own errors; os.path.getsize then
\* raises when the file is gone, and the handler of the entry keeps the line.
\* Nothing is uploaded.
SimpleProcess ==
    /\ pc = "simple"
    /\ IF filepath \in files
       THEN EndEntry("processed", TRUE)
       ELSE EndEntry("error", FALSE)
    /\ processed_count' = processed_count + 1
    /\ UNCHANGED <<pure, daemonVars, queueAtStart, deleted, pending, config,
                   disk, lines, entryHist, firstTry, escaped,
                   queueHist>>

\* ------------------------------------------------------------------ after the retry loop
\* os.path.getsize(filepath) of ssh-uploader's delete test raises.
GetsizeRaises ==
    variant = "ssh" /\ Ext(filepath) = ".raw" /\ filepath \notin files

\* if success: the file is deleted when the variant's rule says so.
FinishDelivered ==
    /\ pc = "finish"
    /\ success
    /\ ~GetsizeRaises
    /\ EndEntry("delivered", TRUE)
    /\ files' = IF DeleteAfterUpload(variant, filepath, cleanup_after_upload,
                                     size[filepath])
                THEN files \ {filepath}
                ELSE files
    /\ firstTry' = IF Len(passLog) = 1 /\ Len(passLog[1]) = 1
                   THEN firstTry \cup {idx}
                   ELSE firstTry
    /\ UNCHANGED escaped
    /\ processed_count' = IF variant = "ssh" THEN processed_count + 1
                          ELSE processed_count
    /\ deleted' = deleted \cup (files \ files')
    /\ UNCHANGED <<pure, daemonVars, queueAtStart, pending, config, queue,
                   queueExists, lines, entryHist, queueHist>>

\* else: remaining_lines.append(line)
FinishFailed ==
    /\ pc = "finish"
    /\ ~success
    /\ EndEntry("failed", FALSE)
    /\ UNCHANGED <<pure, daemonVars, passHist, config, disk, lines, entryHist,
                   firstTry, escaped, queueHist>>

\* except Exception: remaining_lines.append(line)
FinishError ==
    /\ pc = "finish"
    /\ success
    /\ GetsizeRaises
    /\ EndEntry("error", FALSE)
    /\ processed_count' = processed_count + 1
    /\ UNCHANGED <<pure, daemonVars, queueAtStart, deleted, pending, config,
                   disk, lines, entryHist, firstTry, escaped,
                   queueHist>>

\* The for loop is over.
EndLoop ==
    /\ pc = "loop"
    /\ idx > Len(lines)
    /\ pc' = "writeback"
    /\ UNCHANGED <<pure, daemonVars, passHist, config, disk, locals,
                   entryHist, cycleHist, queueHist>>

\* Faulty variant of LinesToWrite: the snapshot is written back.
WriteSnapshot(rem, snap) == NonBlank(snap)

\* The lines the write-back writes: ... for line in remaining_lines.
LinesToWrite(rem, snap) == rem

\* with open(UPLOAD_QUEUE, 'w') as f: f.writelines(...)
WriteBack ==
    /\ pc = "writeback"
    /\ Len(writelines(LinesToWrite(remaining_lines, lines), variant)) <= MaxQueueLen
    /\ queue' = writelines(LinesToWrite(remaining_lines, lines), variant)
    /\ queueExists' = TRUE
    /\ clobbered' = appended
    /\ appended' = <<>>
    /\ store' = remaining_lines
    /\ pc' = "written"
    /\ pending' = <<>>
    /\ UNCHANGED <<pure, daemonVars, processed_count, queueAtStart, deleted,
                   config, files, locals, entryHist, cycleHist, carried,
                   removed>>

\* What run_daemon does when process_upload_queue has returned: the cleanup
\* scan in data-uploader-fixed and simple-satellite-uploader, the sleep at
\* once in ssh-uploader and data-uploader, which have no cleanup call.
AfterPass(v) == IF v \in {"ssh", "data"} THEN "dsleep" ELSE "cleanup"

\* process_upload_queue returns; its locals are gone. Under run_daemon,
\* the next statement of the loop follows.
Return ==
    /\ pc \in {"written", "noqueue", "aborted"}
    /\ pc' = IF daemon = "running" THEN AfterPass(variant) ELSE "idle"
    /\ lines' = <<>>
    /\ idx' = 1
    /\ remaining_lines' = <<>>
    /\ FreshEntry
    /\ outcome' = <<>>
    /\ keptIdx' = <<>>
    /\ firstTry' = {}
    /\ escaped' = {}
    /\ callLog' = <<>>
    /\ passLog' = <<>>
    /\ webLog' = <<>>
    /\ sleeps' = 0
    /\ slept' = 0
    /\ clobbered' = <<>>
    /\ processed_count' = 0
    /\ queueAtStart' = <<>>
    /\ deleted' = {}
    /\ carried' = IF daemon = "off" /\ pc = "written" THEN KeptByRun ELSE carried
    /\ UNCHANGED <<pure, daemonVars, pending, config, disk, appended, store,
                   removed>>

Next ==
    \/ Produce
    \/ ExternalRemove
    \/ NoQueue
    \/ ReadQueue
    \/ SkipBlank
    \/ DropInvalid
    \/ DropMissing
    \/ BeginEntry
    \/ RetrySleep
    \/ UploadFileEnter
    \/ FtpHost
    \/ FtpQuit
    \/ WebEnter
    \/ WebEndpoint
    \/ SshUpload
    \/ SshLink
    \/ PrepareMetadata
    \/ UploadData
    \/ SimpleProcess
    \/ FinishDelivered
    \/ FinishFailed
    \/ FinishError
    \/ EndLoop
    \/ WriteBack
    \/ Return

Spec == Init /\ [][Next]_vars

\* ------------------------------------------------------------------ exceptions the code does not name
\* Most exceptions one pass is recorded to have had in a method of
\* upload_file.
MaxEscapes == 1

\* Faulty variant of OnMethodError: the exception leaves upload_file.
MethodErrorLeaves(m) == "raise"

\* except Exception as e (upload_file): the error is logged and the method
\* loop goes on as after a method that returned False.
OnMethodError(m) == "failed"

\* Faulty variant of EntryErrorHandler: the exception reaches the handler
\* around the whole pass.
CaughtAroundPass(v) == "pass"

\* except Exception as e inside the for loop of process_upload_queue: the
\* handler of the entry.
EntryErrorHandler(v) == "entry"

\* An exception leaves upload_via_direct_web, whose statements outside
\* _try_web_upload are in no try of their own (upload_via_ftp catches every
\* Exception itself), and reaches the try of upload_file's method loop.
MethodRaises ==
    /\ pc \in {"web", "endpoint"}
    /\ Cardinality(escaped) < MaxEscapes
    /\ escaped' = escaped \cup {<<idx, Len(passLog) + 1, Head(methods)>>}
    /\ IF OnMethodError(Head(methods)) = "failed"
       THEN /\ MethodDone(FALSE)
            /\ UNCHANGED <<idx, line, filepath, remaining_lines, attempt,
                           outcome, keptIdx>>
       ELSE /\ EndEntry("error", FALSE)
            /\ UNCHANGED <<callLog, passLog>>
    /\ UNCHANGED <<pure, daemonVars, passHist, config, disk, lines, webLog,
                   sleeps, slept, firstTry, queueHist>>

\* An exception is raised by a statement of the entry's try that is in no
\* inner try: the handler of the entry logs it and keeps the line.
EntryRaises ==
    /\ variant \in {"fixed", "data"}
    /\ pc \in {"call", "meta", "sleep", "finish"}
    /\ IF EntryErrorHandler(variant) = "entry"
       THEN EndEntry("error", FALSE)
       ELSE /\ pc' = "aborted"
            /\ UNCHANGED <<locals, outcome, keptIdx>>
    /\ UNCHANGED <<pure, daemonVars, passHist, config, disk, lines, entryHist,
                   firstTry, escaped, queueHist>>

\* One-shot runs of data-uploader-fixed and data-uploader with nobody else
\* at work.
FaultInit == Init /\ variant \in {"fixed", "data"}

FaultNext ==
    \/ NoQueue
    \/ ReadQueue
    \/ SkipBlank
    \/ DropInvalid
    \/ DropMissing
    \/ BeginEntry
    \/ RetrySleep
    \/ UploadFileEnter
    \/ FtpHost
    \/ FtpQuit
    \/ WebEnter
    \/ WebEndpoint
    \/ PrepareMetadata
    \/ UploadData
    \/ FinishDelivered
    \/ FinishFailed
    \/ EndLoop
    \/ WriteBack
    \/ Return
    \/ MethodRaises
    \/ EntryRaises

FaultSpec == FaultInit /\ [][FaultNext]_vars

\* ------------------------------------------------------------------ run_daemon (data-uploader-fixed)
\* Faulty variant of ExceptException: the clause catches nothing.
ExceptNothing(e) == FALSE

\* "except Exception as e": catches every exception class derived from
\* Exception, which KeyboardInterrupt is not.
ExceptException(e) == e # "KeyboardInterrupt"

\* Where an exception reaching the try of run_daemon's loop leads: break on
\* KeyboardInterrupt, the retry delay on an Exception, else out of the loop.
AfterRaiseInDaemon(e) ==
    IF e = "KeyboardInterrupt" THEN "stopped"
    ELSE IF ExceptException(e) THEN "dsleep"
    ELSE "stopped"

\* Where an exception raised inside the outer try of process_upload_queue
\* leads: its handler logs it and the function returns.
AfterRaiseInPass(e) ==
    IF ExceptException(e) THEN "aborted" ELSE AfterRaiseInDaemon(e)

\* Faulty variant of CleanupRule: the size test is a further condition on
\* the old .raw files instead of a rule of its own.
CleanupRuleOldAndLarge(p) == (Ext(p) = ".raw" /\ old[p]) /\ size[p] > 1000

\* The files cleanup_old_files removes: .raw files older than the cutoff,
\* and any file above 1000 MB.
CleanupRule(p) == (Ext(p) = ".raw" /\ old[p]) \/ size[p] > 1000

\* The pc values between the snapshot read and the start of the write-back.
InPass ==
    {"loop", "call", "ftp", "ftpquit", "web", "endpoint", "sleep", "finish",
     "writeback"}

\* The non-blank snapshot lines not recorded as delivered, in order.
RECURSIVE Undelivered(_)
Undelivered(i) ==
    IF i > Len(lines) THEN <<>>
    ELSE IF strip(lines[i]) # <<>>
            /\ (i > Len(outcome) \/ outcome[i] # "delivered")
         THEN <<strip(lines[i])>> \o Undelivered(i + 1)
         ELSE Undelivered(i + 1)

\* The daemon of data-uploader-fixed at the top of its loop.
DaemonInit ==
    /\ variant = "fixed"
    /\ cleanup_after_upload = TRUE
    /\ size \in {[p \in Paths |-> IF p = "a.raw" THEN s ELSE 1] : s \in SizesMB}
    /\ queue \in InitialQueues
    /\ queueExists \in (IF queue = <<>> THEN BOOLEAN ELSE {TRUE})
    /\ files = Paths
    /\ old \in {[p \in Paths |-> p = "a.raw" /\ o] : o \in BOOLEAN}
    /\ daemon = "running"
    /\ StartOfRun
    /\ NoPureCall

\* The locals and the history of a pass are gone.
ForgetPass ==
    /\ lines' = <<>>
    /\ idx' = 1
    /\ remaining_lines' = <<>>
    /\ FreshEntry
    /\ outcome' = <<>>
    /\ keptIdx' = <<>>
    /\ firstTry' = {}
    /\ escaped' = {}
    /\ callLog' = <<>>
    /\ passLog' = <<>>
    /\ webLog' = <<>>
    /\ sleeps' = 0
    /\ slept' = 0
    /\ clobbered' = <<>>
    /\ processed_count' = 0
    /\ queueAtStart' = <<>>
    /\ deleted' = {}

\* The exception e leaves process_upload_queue's outer try or run_daemon.
Raise(to, e) ==
    /\ pc' = to
    /\ daemon' = IF to = "stopped" THEN "stopped" ELSE daemon
    /\ stopCause' = IF to = "stopped" THEN e ELSE stopCause

\* open(UPLOAD_QUEUE, 'r') or f.readlines() raises.
ReadFails ==
    /\ pc = "idle"
    /\ queueExists
    /\ Raise(AfterRaiseInPass("OSError"), "OSError")
    /\ queueAtStart' = queue
    /\ deleted' = {}
    /\ processed_count' = 0
    /\ appended' = <<>>
    /\ UNCHANGED <<pure, old, scan, peer, pending, config, disk, locals, entryHist,
                   cycleHist, clobbered, store, carried, removed>>

\* The write-back raises: open(UPLOAD_QUEUE, 'w') itself (the file is left
\* as it was), or the write after the open truncated the file.
WriteFails ==
    /\ pc = "writeback"
    /\ Raise(AfterRaiseInPass("OSError"), "OSError")
    /\ \E truncated \in BOOLEAN :
         IF truncated
         THEN /\ queue' = <<>>
              /\ store' = <<>>
              /\ clobbered' = appended
              /\ appended' = <<>>
         ELSE UNCHANGED <<queue, store, clobbered, appended>>
    /\ pending' = <<>>
    /\ UNCHANGED <<pure, old, scan, peer, processed_count, queueAtStart, deleted, config,
                   queueExists, files, locals, entryHist, cycleHist, carried,
                   removed>>

\* The operator interrupts the daemon: KeyboardInterrupt passes every
\* "except Exception" and reaches run_daemon's own clause, which breaks;
\* the process ends.
Interrupt ==
    /\ daemon = "running"
    /\ Raise(AfterRaiseInDaemon("KeyboardInterrupt"), "KeyboardInterrupt")
    /\ ForgetPass
    /\ pending' = <<>>
    /\ UNCHANGED <<pure, old, scan, peer, config, disk, appended, store, carried, removed>>

\* The process is killed and started again: the memory of the pass is lost,
\* the files are as they were.
Crash ==
    /\ daemon = "running"
    /\ pc' = "idle"
    /\ ForgetPass
    /\ pending' = IF pc \in InPass THEN Undelivered(1) ELSE <<>>
    /\ UNCHANGED <<pure, daemonVars, config, disk, appended, store, carried, removed>>

\* cleanup_old_files: every file the rule names is removed unless its
\* os.remove fails or an exception ends the scan before it; the exception
\* is caught inside.
CleanupOldFiles ==
    /\ pc = "cleanup"
    /\ \E kept \in SUBSET {p \in files : CleanupRule(p)}, raised \in BOOLEAN :
         /\ files' = files \ ({p \in files : CleanupRule(p)} \ kept)
         /\ IF raised /\ ~ExceptException("OSError")
            THEN Raise(AfterRaiseInDaemon("OSError"), "OSError")
            ELSE /\ pc' = "dsleep"
                 /\ UNCHANGED <<daemon, stopCause>>
    /\ UNCHANGED <<pure, old, scan, peer, passHist, config, queue, queueExists, locals,
                   entryHist, cycleHist, queueHist>>

\* time.sleep(60), or the retry delay after an exception; then the next
\* iteration of the while loop.
DaemonSleep ==
    /\ pc = "dsleep"
    /\ pc' = "idle"
    /\ UNCHANGED <<pure, daemonVars, passHist, config, disk, locals,
                   entryHist, cycleHist, queueHist>>

\* The steps of the daemon itself.
DaemonProgram ==
    \/ NoQueue
    \/ ReadQueue
    \/ SkipBlank
    \/ DropInvalid
    \/ DropMissing
    \/ BeginEntry
    \/ RetrySleep
    \/ UploadFileEnter
    \/ FtpHost
    \/ FtpQuit
    \/ WebEnter
    \/ WebEndpoint
    \/ FinishDelivered
    \/ FinishFailed
    \/ EndLoop
    \/ WriteBack
    \/ Return
    \/ CleanupOldFiles
    \/ DaemonSleep

DaemonNext ==
    \/ Produce
    \/ ExternalRemove
    \/ ReadFails
    \/ WriteFails
    \/ Interrupt
    \/ Crash
    \/ DaemonProgram

DaemonSpec == DaemonInit /\ [][DaemonNext]_vars

\* The daemon under failures, interrupts and kills, with no producer at
\* work and nobody else touching the files.
DaemonAloneNext ==
    \/ ReadFails
    \/ WriteFails
    \/ Interrupt
    \/ Crash
    \/ DaemonProgram

\* The daemon's thread is never held back for ever: every blocking call has
\* a timeout and every sleep ends.
DaemonLiveSpec ==
    DaemonInit /\ [][DaemonAloneNext]_vars /\ WF_vars(DaemonProgram)

\* ------------------------------------------------------------------ run_daemon (data-uploader-fixed, ssh-uploader)
\* The daemon of data-uploader-fixed or of ssh-uploader at the top of its
\* loop.
LoopInit ==
    /\ variant \in {"fixed", "ssh"}
    /\ cleanup_after_upload = TRUE
    /\ size \in {[p \in Paths |-> IF p = "a.raw" THEN s ELSE 1] : s \in SizesMB}
    /\ queue \in InitialQueues
    /\ queueExists \in (IF queue = <<>> THEN BOOLEAN ELSE {TRUE})
    /\ files = Paths
    /\ old \in {[p \in Paths |-> p = "a.raw" /\ o] : o \in BOOLEAN}
    /\ daemon = "running"
    /\ StartOfRun
    /\ NoPureCall

\* Either daemon under failures, interrupts and kills, with no producer at
\* work and nobody else touching the files.
LoopNext ==
    \/ DaemonAloneNext
    \/ SshUpload
    \/ SshLink

LoopSpec == LoopInit /\ [][LoopNext]_vars

\* ------------------------------------------------------------------ cleanup_old_files, cleanup_old_data
\* What the data directory holds: two captures and a directory named like
\* one in DATA_DIR, an image in IMAGES_DIR, a file in REPORT_DIR.
CleanPaths == {"a.raw", "x.raw", "dir.raw", "b.png", "d.bmp"}

\* The directory a path lies in.
DirOf(p) ==
    CASE p = "b.png" -> "IMAGES_DIR"
      [] p = "d.bmp" -> "REPORT_DIR"
      [] OTHER -> "DATA_DIR"

\* The directories a scan goes through: [DATA_DIR, IMAGES_DIR] in
\* cleanup_old_files, DATA_DIR alone in cleanup_old_data.
ScannedDirs(v) ==
    IF v = "fixed" THEN <<"DATA_DIR", "IMAGES_DIR">> ELSE <<"DATA_DIR">>

\* os.listdir(directory) in cleanup_old_files, Path(DATA_DIR).glob("*.raw")
\* in cleanup_old_data: the names the scan of a directory goes through.
Listing(v, d, fs) ==
    {p \in fs : DirOf(p) = d /\ (v = "simple" => Ext(p) = ".raw")}

\* Whether the scan tries to remove the path it is at: in cleanup_old_files
\* os.path.isfile(filepath) and the rule; in cleanup_old_data what the glob
\* found is unlinked when it is older than the cutoff and larger than 100 MB.
ScanRemoves(v, p, fs) ==
    IF v = "fixed" THEN p \in fs /\ p # "dir.raw" /\ CleanupRule(p)
    ELSE old[p] /\ size[p] > 100

\* os.remove / unlink: the file is removed, or the call raises because the
\* permission is denied or because the file is gone by now.
RemoveOutcomes == {"ok", "denied", "gone"}

\* cleanup_old_files has os.remove in a try of its own that logs the error;
\* cleanup_old_data has unlink in the try around the whole scan.
RemoveErrorCaught(v) == v = "fixed"

\* The "cleanup" command of data-uploader-fixed and of
\* simple-satellite-uploader: one scan, no pass. The files of the data
\* directory have any of these sizes and ages.
CleanupInit ==
    /\ variant \in {"fixed", "simple"}
    /\ cleanup_after_upload = TRUE
    /\ size \in
           {[p \in CleanPaths |->
                CASE p = "a.raw" -> sa
                  [] p = "x.raw" -> sx
                  [] p = "b.png" -> sb
                  [] p = "d.bmp" -> sd
                  [] OTHER -> 1] :
              sa \in {1, 200, 2000}, sx \in {1, 200}, sb \in {1, 2000}, sd \in {1, 2000}}
    /\ old \in
           {[p \in CleanPaths |->
                CASE p = "a.raw" -> oa
                  [] p = "x.raw" -> ox
                  [] p = "b.png" -> ob
                  [] p = "dir.raw" -> TRUE
                  [] OTHER -> FALSE] :
              oa \in BOOLEAN, ox \in BOOLEAN, ob \in BOOLEAN}
    /\ queue = <<>>
    /\ queueExists = FALSE
    /\ files = CleanPaths
    /\ daemon = "off"
    /\ StartOfRun
    /\ NoPureCall

\* cutoff_time = ...; the scan begins with its first directory.
CleanupEnter ==
    /\ pc = "idle"
    /\ pc' = "scan"
    /\ scan' = [NoScan EXCEPT !.dirs = ScannedDirs(variant)]
    /\ UNCHANGED <<pure, daemon, stopCause, old, peer, passHist, config, disk,
                   locals, entryHist, cycleHist, queueHist>>

\* for directory in [...]: for filename in os.listdir(directory)
CleanupListDir ==
    /\ pc = "scan"
    /\ scan.listing = {}
    /\ scan.dirs # <<>>
    /\ scan' = [scan EXCEPT !.dirs = Tail(scan.dirs),
                            !.listing = Listing(variant, Head(scan.dirs), files)]
    /\ UNCHANGED <<pure, daemon, stopCause, old, peer, passHist, config, disk, pc,
                   locals, entryHist, cycleHist, queueHist>>

\* One name of the listing: the tests, and the removal when they pass. A
\* removal that raises is logged and the scan goes on (cleanup_old_files), or
\* the exception ends the scan (cleanup_old_data).
CleanupFile ==
    /\ pc = "scan"
    /\ \E p \in scan.listing, o \in RemoveOutcomes :
         LET seen == [scan EXCEPT !.listing = scan.listing \ {p},
                                  !.examined = scan.examined \cup {p}]
             tried == [seen EXCEPT !.attempted = scan.attempted \cup {p}]
             failed == [tried EXCEPT !.denied = scan.denied \cup {p}]
             after == IF RemoveErrorCaught(variant) THEN failed
                      ELSE [failed EXCEPT !.aborted = TRUE,
                                          !.listing = {},
                                          !.dirs = <<>>]
         IN IF ~ScanRemoves(variant, p, files)
            THEN /\ scan' = seen
                 /\ UNCHANGED <<files, removed>>
            ELSE CASE o = "ok" ->
                        /\ scan' = [tried EXCEPT !.deleted = scan.deleted \cup {p}]
                        /\ files' = files \ {p}
                        /\ UNCHANGED removed
                   [] o = "denied" ->
                        /\ scan' = after
                        /\ UNCHANGED <<files, removed>>
                   [] OTHER ->
                        /\ scan' = after
                        /\ files' = files \ {p}
                        /\ removed' = removed \cup {p}
    /\ UNCHANGED <<pure, daemon, stopCause, old, peer, passHist, config, queue,
                   queueExists, pc, locals, entryHist, cycleHist, appended,
                   clobbered, store, carried>>

\* The scan is over, or the handler around it has logged the exception.
CleanupReturn ==
    /\ pc = "scan"
    /\ scan.listing = {}
    /\ scan.dirs = <<>>
    /\ pc' = "cleaned"
    /\ UNCHANGED <<pure, daemonVars, passHist, config, disk, locals,
                   entryHist, cycleHist, queueHist>>

CleanupNext ==
    \/ CleanupEnter
    \/ CleanupListDir
    \/ CleanupFile
    \/ CleanupReturn

CleanupSpec == CleanupInit /\ [][CleanupNext]_vars

\* ------------------------------------------------------------------ delete after upload (data-uploader-fixed)
\* ------------------------------------------------------------------ two orchestrator processes
\* Two processes of data-uploader-fixed run process_upload_queue once each
\* on one queue file of distinct well-formed entries; no producer is at
\* work. The first process is the program above, step by step; the second
\* runs the same code with each entry's upload calls taken as one step.
PairInit ==
    /\ variant = "fixed"
    /\ cleanup_after_upload = TRUE
    /\ size = [p \in Paths |-> 1]
    /\ queue \in {Terminated(ls) :
                     ls \in {<<Entry3("a.raw")>>, <<Entry3("b.png")>>,
                             <<Entry3("a.raw"), Entry3("b.png")>>,
                             <<Entry3("b.png"), Entry3("a.raw")>>}}
    /\ queueExists = TRUE
    /\ files = Paths
    /\ old = [p \in Paths |-> FALSE]
    /\ daemon = "off"
    /\ StartOfRun
    /\ NoPureCall

\* Where the first process is: before its read, between its read and its
\* write-back, or after its write-back.
Phase ==
    IF pc = "idle" THEN "before" ELSE IF pc = "written" THEN "after" ELSE "during"

\* with open(UPLOAD_QUEUE, 'r') as f: lines = f.readlines(), in the second
\* process. Nothing is locked.
PeerRead ==
    /\ peer.pc = "idle"
    /\ peer.began = ""
    /\ queueExists
    /\ peer' = [NoPeer EXCEPT !.pc = "loop", !.lines = readlines(queue),
                              !.began = Phase]
    /\ UNCHANGED <<pure, daemon, stopCause, old, scan, passHist, config, disk,
                   pc, locals, entryHist, cycleHist, queueHist>>

\* One iteration of the second process's for loop: the line is skipped,
\* dropped, delivered (and the file deleted unless it is an image) or kept
\* after R failed calls.
PeerEntry ==
    /\ peer.pc = "loop"
    /\ peer.idx <= Len(peer.lines)
    /\ LET l == strip(peer.lines[peer.idx])
           p == PathField(split(l))
           ends(how, delivered) ==
               [peer EXCEPT !.idx = NextPosition(peer.idx),
                            !.outcome = Append(peer.outcome, how),
                            !.remaining_lines =
                                KeepLine(peer.remaining_lines, l, delivered)]
       IN IF l = <<>>
          THEN /\ peer' = [peer EXCEPT !.idx = NextPosition(peer.idx),
                                       !.outcome = Append(peer.outcome, "blank")]
               /\ UNCHANGED files
          ELSE IF ~ValidFieldCount(variant, Len(split(l)))
          THEN /\ peer' = ends("invalid", TRUE)
               /\ UNCHANGED files
          ELSE IF ~PathExists(p, files)
          THEN /\ peer' = ends("missing", TRUE)
               /\ UNCHANGED files
          ELSE \E ok \in BOOLEAN :
                  /\ peer' = ends(IF ok THEN "delivered" ELSE "failed", ok)
                  /\ files' = IF ok /\ DeleteAfterUpload(variant, p,
                                          cleanup_after_upload, size[p])
                              THEN files \ {p}
                              ELSE files
    /\ UNCHANGED <<pure, daemon, stopCause, old, scan, passHist, config, queue,
                   queueExists, pc, locals, entryHist, cycleHist, queueHist>>

\* The second process's write-back: the file is truncated and its own
\* remaining lines are written, whatever the file holds by now.
PeerWrite ==
    /\ peer.pc = "loop"
    /\ peer.idx > Len(peer.lines)
    /\ queue' = writelines(LinesToWrite(peer.remaining_lines, peer.lines), variant)
    /\ queueExists' = TRUE
    /\ peer' = [peer EXCEPT !.pc = "written", !.ended = Phase]
    /\ UNCHANGED <<pure, daemon, stopCause, old, scan, passHist, config, files,
                   pc, locals, entryHist, cycleHist, queueHist>>

PairNext ==
    \/ ReadQueue
    \/ DropMissing
    \/ BeginEntry
    \/ RetrySleep
    \/ UploadFileEnter
    \/ FtpHost
    \/ FtpQuit
    \/ WebEnter
    \/ WebEndpoint
    \/ FinishDelivered
    \/ FinishFailed
    \/ EndLoop
    \/ WriteBack
    \/ PeerRead
    \/ PeerEntry
    \/ PeerWrite

PairSpec == PairInit /\ [][PairNext]_vars

\* One-shot runs of data-uploader-fixed on a queue of well-formed entries
\* for small files of every kind, all present.
RetainInit ==
    /\ variant = "fixed"
    /\ cleanup_after_upload = TRUE
    /\ size = [p \in AllPaths |-> 1]
    /\ queue \in {Terminated(ls) :
                     ls \in SeqsUpTo({Entry3(p) : p \in AllPaths}, MaxLines)}
    /\ queueExists \in (IF queue = <<>> THEN BOOLEAN ELSE {TRUE})
    /\ files = AllPaths
    /\ old = [p \in AllPaths |-> FALSE]
    /\ daemon = "off"
    /\ StartOfRun
    /\ NoPureCall

\* The pass with nobody else at work; no line is blank or malformed.
RetainNext ==
    \/ NoQueue
    \/ ReadQueue
    \/ DropMissing
    \/ BeginEntry
    \/ RetrySleep
    \/ UploadFileEnter
    \/ FtpHost
    \/ FtpQuit
    \/ WebEnter
    \/ WebEndpoint
    \/ FinishDelivered
    \/ FinishFailed
    \/ EndLoop
    \/ WriteBack
    \/ Return

RetainSpec == RetainInit /\ [][RetainNext]_vars

\* The same runs when no call blocks for ever: every transport call has a
\* timeout (ftp.connect 30 s, the post 300 s) and every sleep ends.
RetainLiveSpec == RetainSpec /\ WF_vars(RetainNext)

\* ------------------------------------------------------------------ verdict on a response
\* Nothing is queued and no pass runs.
NoPass ==
    /\ variant = "fixed"
    /\ cleanup_after_upload = TRUE
    /\ size = [p \in Paths |-> 1]
    /\ queue = <<>>
    /\ queueExists = FALSE
    /\ files = Paths
    /\ old = [p \in Paths |-> FALSE]
    /\ daemon = "off"
    /\ StartOfRun

VerdictInit ==
    /\ NoPass
    /\ response \in AllResponses
    /\ verdict = <<>>
    /\ fsys = [p \in HashPaths |-> [mtime |-> 1, content |-> <<>>, readable |-> TRUE]]
    /\ hashLog = <<>>
    /\ infoLog = <<>>

program == <<config, disk, pc, locals, entryHist, cycleHist, queueHist, passHist,
             daemonVars>>

Asked(fn) == \E k \in 1..Len(verdict) : verdict[k].fn = fn

\* _try_web_upload (data-uploader-fixed) once the post returned or raised.
TryWebUpload ==
    /\ ~Asked("_try_web_upload")
    /\ verdict' = Append(verdict, [fn |-> "_try_web_upload",
                                   ok |-> WebSuccess(response)])
    /\ UNCHANGED <<program, response, fsys, hashLog, infoLog>>

\* upload_file (data-uploader) once the post returned or raised.
DataUploadFile ==
    /\ ~Asked("upload_file")
    /\ verdict' = Append(verdict, [fn |-> "upload_file",
                                   ok |-> DataSuccess(response)])
    /\ UNCHANGED <<program, response, fsys, hashLog, infoLog>>

VerdictNext ==
    \/ TryWebUpload
    \/ DataUploadFile

VerdictSpec == VerdictInit /\ [][VerdictNext]_vars

\* ------------------------------------------------------------------ calculate_file_hash
HashInit ==
    /\ NoPass
    /\ response = [exc |-> TRUE, status |-> 0, json |-> FALSE]
    /\ verdict = <<>>
    /\ fsys \in [HashPaths -> HashFiles]
    /\ hashLog = <<>>
    /\ infoLog = <<>>

CalculateFileHash ==
    \E p \in HashPaths :
        /\ Len(hashLog) < MaxHashCalls
        /\ hashLog' = Append(hashLog, [path |-> p,
                                       digest |-> calculate_file_hash(p, fsys)])
        /\ UNCHANGED <<program, response, verdict, fsys, infoLog>>

\* The modification time of a file changes, its content does not (touch).
Touch ==
    \E p \in HashPaths, m \in Mtimes :
        /\ fsys[p].mtime # m
        /\ fsys' = [fsys EXCEPT ![p].mtime = m]
        /\ UNCHANGED <<program, response, verdict, hashLog, infoLog>>

HashNext ==
    \/ CalculateFileHash
    \/ Touch

HashSpec == HashInit /\ [][HashNext]_vars

\* ------------------------------------------------------------------ get_file_info, prepare_metadata
\* Some of the paths name a file; a file can be unreadable.
InfoInit ==
    /\ NoPass
    /\ response = [exc |-> TRUE, status |-> 0, json |-> FALSE]
    /\ verdict = <<>>
    /\ fsys \in UNION {[S -> HashFiles] : S \in SUBSET HashPaths}
    /\ hashLog = <<>>
    /\ infoLog = <<>>

\* The file at p can be opened and read.
Readable(p) == p \in DOMAIN fsys /\ fsys[p].readable

\* upload_via_direct_web up to the size test: file_info = get_file_info(..),
\* "if not file_info: return False".
GetFileInfo ==
    \E p \in HashPaths :
        /\ Len(infoLog) < MaxInfoCalls
        /\ infoLog' = Append(infoLog, [fn |-> "get_file_info",
                                       path |-> p,
                                       readable |-> Readable(p),
                                       info |-> get_file_info(p, fsys),
                                       posted |-> FALSE])
        /\ UNCHANGED <<program, response, verdict, fsys, hashLog>>

\* _try_web_upload with the file_info of the call before it: the file is
\* opened, and the post carries file_info["hash"] as file_hash.
PostWithFileInfo ==
    /\ infoLog # <<>>
    /\ Len(infoLog) < MaxInfoCalls
    /\ infoLog[Len(infoLog)].fn = "get_file_info"
    /\ infoLog[Len(infoLog)].info # <<>>
    /\ infoLog' = Append(infoLog,
                         [infoLog[Len(infoLog)] EXCEPT
                             !.fn = "_try_web_upload",
                             !.readable = Readable(infoLog[Len(infoLog)].path),
                             !.posted = Readable(infoLog[Len(infoLog)].path)])
    /\ UNCHANGED <<program, response, verdict, fsys, hashLog>>

\* metadata = self.prepare_metadata(..) of data-uploader.
PrepareMetadataCall ==
    \E p \in HashPaths :
        /\ Len(infoLog) < MaxInfoCalls
        /\ infoLog' = Append(infoLog, [fn |-> "prepare_metadata",
                                       path |-> p,
                                       readable |-> Readable(p),
                                       info |-> prepare_metadata(p, fsys),
                                       posted |-> FALSE])
        /\ UNCHANGED <<program, response, verdict, fsys, hashLog>>

\* The permissions of a file change (chmod).
Chmod ==
    \E p \in DOMAIN fsys :
        /\ fsys' = [fsys EXCEPT ![p].readable = ~fsys[p].readable]
        /\ UNCHANGED <<program, response, verdict, hashLog, infoLog>>

InfoNext ==
    \/ GetFileInfo
    \/ PostWithFileInfo
    \/ PrepareMetadataCall
    \/ Chmod

InfoSpec == InfoInit /\ [][InfoNext]_vars

\* ------------------------------------------------------------------ properties
Range(f) == {f[i] : i \in 1..Len(f)}

Last(f) == f[Len(f)]

\* The stripped snapshot line at position i, its fields and its path.
SnapLine(i) == strip(lines[i])
SnapPath(i) == PathField(split(SnapLine(i)))

\* The stripped snapshot lines at the given positions, in that order.
RECURSIVE LinesAt(_)
LinesAt(is) ==
    IF is = <<>> THEN <<>> ELSE <<SnapLine(Head(is))>> \o LinesAt(Tail(is))

\* The positions up to n whose processing ended as how, ascending.
RECURSIVE EndedAs(_, _)
EndedAs(how, n) ==
    IF n = 0 THEN <<>>
    ELSE IF outcome[n] = how THEN Append(EndedAs(how, n - 1), n)
    ELSE EndedAs(how, n - 1)

\* C1: an entry a producer appends between the snapshot read and the
\* write-back is still in the queue file after the write-back
\* (data-uploader-fixed and ssh-uploader).
C1_AppendedNeverLost ==
    (pc = "written" /\ variant \in {"fixed", "ssh"})
        => \A l \in Range(clobbered) : l \in Range(LoadAll(queue))

\* C2: after a full pass of data-uploader-fixed with no producer at work,
\* the rewritten queue holds exactly the snapshot entries whose every upload
\* call failed, each once and in snapshot order; nothing delivered, missing,
\* malformed or blank and nothing from outside the snapshot is in it.
C2_RewrittenIsFailed ==
    (pc = "written" /\ variant = "fixed" /\ clobbered = <<>> /\ appended = <<>>)
        => /\ Len(outcome) = Len(lines)
           /\ keptIdx = EndedAs("failed", Len(lines))
           /\ remaining_lines = LinesAt(EndedAs("failed", Len(lines)))
           /\ queue = Terminated(LinesAt(EndedAs("failed", Len(lines))))
           /\ LoadAll(queue) = LinesAt(EndedAs("failed", Len(lines)))

C2_Witness ==
    /\ pc = "written"
    /\ variant = "fixed"
    /\ clobbered = <<>>
    /\ appended = <<>>
    /\ outcome = <<"delivered", "failed">>
    /\ queue = Terminated(<<Entry3("b.png")>>)

\* What a finished call of upload_file may have logged: the methods in the
\* configured order, none after a success.
OrderedUntilSuccess(c) ==
    /\ Len(c) <= 2
    /\ \A j \in 1..Len(c) : c[j].m = <<"FTP", "Web">>[j]
    /\ \A j \in 1..Len(c) : c[j].ok => j = Len(c)

\* C3: within one call of upload_file the methods are tried in the
\* configured order (FTP, then Web), the first success ends the call with
\* overall success, and no later method is attempted.
C3_FirstSuccessEndsCall ==
    variant = "fixed"
        => /\ OrderedUntilSuccess(callLog)
           /\ \A k \in 1..Len(passLog) : OrderedUntilSuccess(passLog[k])
           /\ pc \in {"sleep", "finish"}
                 => success = (callLog # <<>> /\ Last(callLog).ok)

C3_Witness ==
    /\ variant = "fixed"
    /\ pc = "finish"
    /\ success
    /\ callLog = <<[m |-> "FTP", ok |-> TRUE]>>
    /\ webLog = <<>>
    /\ filepath \in files

\* The log of an upload call in which every method was tried and failed.
FullFailedPass ==
    IF variant = "fixed"
    THEN <<[m |-> "FTP", ok |-> FALSE], [m |-> "Web", ok |-> FALSE]>>
    ELSE <<[m |-> "SCP", ok |-> FALSE]>>

\* The entry at snapshot position idx - 1 has just ended as how.
JustEnded(how) ==
    /\ pc \in {"loop", "writeback", "written"}
    /\ idx > 1
    /\ Len(outcome) = idx - 1
    /\ outcome[idx - 1] = how

EndToEndScenario ==
    /\ pc = "written"
    /\ lines = <<Entry4("a.raw") \o <<NL>>>>
    /\ outcome # <<"missing">>
    /\ size["a.raw"] = 1
    /\ cleanup_after_upload
    /\ removed = {}
    /\ clobbered = <<>>
    /\ appended = <<>>
    /\ \A k \in 1..Len(passLog) : \A j \in 1..Len(passLog[k]) :
          passLog[k][j].m = "FTP" => ~passLog[k][j].ok
    /\ \A j \in 1..Len(webLog) : webLog[j].ok = (j = 2)

EndToEndResult ==
    /\ queue = <<>>
    /\ "a.raw" \notin files
    /\ Len(webLog) = 2

\* C6: end to end, with the single 4-field .raw entry and an HTTP strategy
\* whose second endpoint succeeds, one cycle ends with an empty queue file,
\* the source file deleted and exactly 2 endpoint attempts.
C6_EndToEnd ==
    (variant \in {"fixed", "data"} /\ EndToEndScenario) => EndToEndResult

\* The same scenario in data-uploader-fixed alone.
EndToEndFixed ==
    (variant = "fixed" /\ EndToEndScenario) => EndToEndResult

EndToEndFixedReached ==
    variant = "fixed" /\ EndToEndScenario /\ EndToEndResult

\* C7: in data-uploader-fixed the queue file round-trips: what the
\* write-back wrote, followed by what producers appended since, loads as
\* exactly those entries in that order.
C7_RoundTrip ==
    variant = "fixed"
        => /\ pc = "written" => LoadAll(queue) = remaining_lines \o appended
           /\ (pc = "loop" /\ idx = 1) => NonBlank(lines) \o appended = store

C7_Witness ==
    /\ variant = "fixed"
    /\ pc = "written"
    /\ remaining_lines = <<Entry3("b.png"), Entry4("a.raw")>>
    /\ LoadAll(queue) = <<Entry3("b.png"), Entry4("a.raw")>>

\* C8: in ssh-uploader and simple-satellite-uploader, k >= 2 entries
\* written back load again as the same k entries in the same order.
C8_OnePerLine ==
    (variant \in {"ssh", "simple"} /\ pc = "written" /\ appended = <<>>
     /\ Len(remaining_lines) >= 2)
        => LoadAll(queue) = remaining_lines

\* C9: in data-uploader-fixed a malformed line (fewer than 3 fields) does
\* not abort the pass: every snapshot line is processed once, the malformed
\* one is dropped (no upload, not written back) and every well-formed one
\* ends delivered, failed or skipped for its missing file.
C9_MalformedTolerated ==
    (variant = "fixed" /\ pc = "written")
        => /\ Len(outcome) = Len(lines)
           /\ \A i \in 1..Len(lines) :
                LET l == SnapLine(i)
                IN /\ (l # <<>> /\ Len(split(l)) < 3)
                      => outcome[i] = "invalid" /\ i \notin Range(keptIdx)
                   /\ (l # <<>> /\ Len(split(l)) >= 3)
                      => outcome[i] \in {"delivered", "failed", "missing"}
           /\ \A j, k \in 1..Len(keptIdx) : j < k => keptIdx[j] < keptIdx[k]
           /\ remaining_lines = LinesAt(keptIdx)

C9_Witness ==
    /\ variant = "fixed"
    /\ pc = "written"
    /\ lines = <<Malformed \o <<NL>>, Entry3("a.raw") \o <<NL>>>>
    /\ outcome = <<"invalid", "delivered">>
    /\ remaining_lines = <<>>

\* C10: in every variant a line of 3 or more fields is valid (never dropped
\* as invalid), the 4-field line with its kind included.
C10_AtLeastThreeFieldsValid ==
    \A i \in 1..Len(outcome) :
        (SnapLine(i) # <<>> /\ Len(split(SnapLine(i))) >= 3)
            => outcome[i] # "invalid"

\* The loop is at a well-formed line whose file is not there, and the
\* orchestrator takes its next step (the process is not ended instead).
ReachedMissing ==
    /\ variant \in {"fixed", "ssh"}
    /\ pc = "loop"
    /\ idx <= Len(lines)
    /\ SnapLine(idx) # <<>>
    /\ Len(split(SnapLine(idx))) >= 3
    /\ SnapPath(idx) \notin files
    /\ (pc' # pc \/ idx' # idx)
    /\ pc' \notin {"idle", "stopped"}

\* That step ends the entry as missing: no upload call, nothing kept.
DroppedUntried ==
    /\ pc' = "loop"
    /\ idx' = idx + 1
    /\ outcome' = Append(outcome, "missing")
    /\ UNCHANGED <<remaining_lines, keptIdx, callLog, passLog, webLog, sleeps,
                   queue, files>>

\* C11: in data-uploader-fixed and ssh-uploader an entry whose file does not
\* exist when the loop reaches it gets no upload call and is dropped: it is
\* not kept, and the queue the write-back writes is made of the kept lines
\* only, so no later cycle finds it.
C11_MissingDropped ==
    /\ [](variant \in {"fixed", "ssh"}
            => /\ \A i \in 1..Len(outcome) :
                    outcome[i] = "missing" => i \notin Range(keptIdx)
               /\ (pc = "written" /\ clobbered = <<>> /\ appended = <<>>)
                     => queue = writelines(LinesAt(keptIdx), variant))
    /\ [][ReachedMissing => DroppedUntried]_vars

C11_Witness ==
    /\ variant = "ssh"
    /\ pc = "written"
    /\ lines = <<Entry3("a.raw") \o <<NL>>, Entry3("b.png") \o <<NL>>>>
    /\ outcome = <<"missing", "failed">>
    /\ keptIdx = <<2>>
    /\ queue = Entry3("b.png") \o <<BSN>>

\* C12: an entry whose file (present throughout) is larger than the upload
\* limit is dropped: it is not kept for a later cycle and gets no retry in
\* this one.
C12_OversizeDropped ==
    (/\ variant \in {"fixed", "ssh"}
     /\ pc \in {"loop", "writeback", "written"}
     /\ idx > 1
     /\ Len(outcome) = idx - 1
     /\ outcome[idx - 1] \in {"delivered", "failed", "error"}
     /\ removed = {}
     /\ size[SnapPath(idx - 1)] > MaxFileSizeMB(variant))
        => /\ (idx - 1) \notin Range(keptIdx)
           /\ sleeps = 0
           /\ Len(passLog) <= 1

\* C13: in data-uploader-fixed no entry leaves the queue before it was
\* delivered: after the write-back the file still holds every entry that was
\* appended during the pass and every snapshot entry whose uploads failed.
C13_NotRemovedBeforeDelivery ==
    (variant = "fixed" /\ pc = "written")
        => /\ \A l \in Range(clobbered) : l \in Range(LoadAll(queue))
           /\ \A i \in 1..Len(outcome) :
                 outcome[i] = "failed" => SnapLine(i) \in Range(LoadAll(queue))

\* C17: two entries of one snapshot with the same path are processed
\* independently: when the first was attempted and nobody else removed the
\* file, the second is attempted too, whatever the first ended as.
C17_DuplicatesIndependent ==
    (/\ variant = "fixed"
     /\ Len(lines) >= 2
     /\ Len(outcome) >= 2
     /\ SnapLine(1) # <<>>
     /\ Len(split(SnapLine(1))) >= 3
     /\ SnapLine(2) # <<>>
     /\ Len(split(SnapLine(2))) >= 3
     /\ SnapPath(1) = SnapPath(2)
     /\ removed = {}
     /\ outcome[1] \in {"delivered", "failed"})
        => outcome[2] \in {"delivered", "failed"}

\* C19: the HTTP strategy takes every 2xx status as success: whenever the
\* post returned a response with 200 <= status <= 299, _try_web_upload
\* returns success.
C19_Any2xxSucceeds ==
    \A k \in 1..Len(verdict) :
        (/\ verdict[k].fn = "_try_web_upload"
         /\ ~response.exc
         /\ response.status \in 200..299)
            => verdict[k].ok

RECURSIVE IsSubseq(_, _)
IsSubseq(a, b) ==
    IF a = <<>> THEN TRUE
    ELSE IF b = <<>> THEN FALSE
    ELSE IF Head(a) = Head(b) THEN IsSubseq(Tail(a), Tail(b))
    ELSE IsSubseq(a, Tail(b))

\* C14: when the process is killed during a pass before the write-back
\* starts, the queue file found at the restart still holds every snapshot
\* entry that was not delivered, and the next pass has each of them in its
\* snapshot, so it is tried again.
C14_CrashKeepsPending ==
    /\ pc \in {"idle", "aborted", "cleanup", "dsleep"}
          => IsSubseq(pending, LoadAll(queue))
    /\ pc \in InPass => IsSubseq(pending, NonBlank(lines))

C14_Witness ==
    /\ pending = <<Entry3("a.raw"), Entry3("b.png")>>
    /\ pc = "ftp"
    /\ idx = 2
    /\ filepath = "b.png"
    /\ outcome = <<"failed">>
    /\ removed = {}

\* C15: a pass that aborts because the queue file could not be read or
\* written leaves things as they were: the queue file holds what it held
\* when the pass began (and what producers appended since), and the pass
\* deleted no file.
C15_AbortLeavesStateUntouched ==
    pc = "aborted"
        => /\ queue = queueAtStart \o Terminated(appended)
           /\ deleted = {}

\* C16: no failure of a transport, of an entry's input, of the queue file
\* or of the cleanup ends the daemon loop of data-uploader-fixed: only a
\* KeyboardInterrupt stops it, and as long as it is not stopped it comes
\* back to the top of its loop again and again.
C16_DaemonSurvivesFailures ==
    /\ [](daemon = "stopped" => stopCause = "KeyboardInterrupt")
    /\ []<>(pc = "idle" \/ daemon = "stopped")

C16_Witness ==
    /\ daemon = "running"
    /\ pc = "aborted"
    /\ outcome = <<"failed", "missing">>
    /\ queue = queueAtStart
    /\ stopCause = "none"

\* The counts a pass holds when it ends: processed_count, incremented per
\* success in ssh-uploader and simple-satellite-uploader; no variant counts
\* failed or skipped entries, and data-uploader-fixed counts nothing.
Counts == [delivered |-> processed_count, failed |-> 0, skipped |-> 0]

\* C18: at the end of a cycle the counts of delivered, failed and skipped
\* entries add up to the number of non-blank lines of the snapshot.
C18_CountsSumToEntries ==
    (pc = "written" /\ variant \in {"fixed", "ssh"})
        => Counts.delivered + Counts.failed + Counts.skipped
              = Len(NonBlank(lines))

\* The endpoint posts upload call k made for the entry, in order.
PostsOfCall(k) == SelectSeq(webLog, LAMBDA e : e.call = k)

\* The methods of an upload call's log that ended as ok.
MethodResult(c, m, ok) == \E j \in 1..Len(c) : c[j].m = m /\ c[j].ok = ok

\* The posts s are the first Len(s) URLs of the fixed order for path p
\* (images/ for an image only, raw/, root), none after a success.
InEndpointOrder(s, p) ==
    LET order == IF Ext(p) \in {".png", ".jpg", ".jpeg", ".gif", ".bmp"}
                 THEN <<"images/", "raw/", "/">>
                 ELSE <<"raw/", "/">>
    IN /\ Len(s) <= Len(order)
       /\ \A j \in 1..Len(s) : s[j].url = order[j]
       /\ \A j \in 1..Len(s) : s[j].ok => j = Len(s)

\* The posts s of a finished call of the Web method with result ok: a
\* success is the last post; a failure made no post at all (no metadata, or
\* the file too large) or a post to every URL.
WebCallComplete(s, p, ok) ==
    IF ok THEN s # <<>> /\ Last(s).ok
    ELSE s = <<>> \/ (Len(s) = (IF is_image(p) THEN 3 ELSE 2) /\ ~Last(s).ok)

\* A post to a URL that is not the last one fails, whatever the failure
\* (a status other than 200, 201, 202, an exception of the post, a timeout,
\* the file gone): the next step of the call posts to the next URL.
FailedPostGoesOn ==
    (/\ pc = "endpoint"
     /\ webLog' # webLog
     /\ ~Last(webLog').ok
     /\ Len(endpoints) > 1)
        => /\ pc' = "endpoint"
           /\ endpoints' = Tail(endpoints)
           /\ callLog' = callLog

\* C21: within one call of upload_via_direct_web the endpoints are posted
\* to in the fixed order images/ (image files only), raw/, root; a failed
\* post of any kind is followed by the post to the next endpoint, and no
\* endpoint is posted to after the first success.
C21_EndpointsInOrder ==
    /\ []((variant = "fixed" /\ filepath # "")
            => /\ \A k \in 1..(Len(passLog) + 1) :
                    InEndpointOrder(PostsOfCall(k), filepath)
               /\ \A k \in 1..Len(passLog) :
                    \A ok \in BOOLEAN :
                        MethodResult(passLog[k], "Web", ok)
                            => WebCallComplete(PostsOfCall(k), filepath, ok)
               /\ pc = "endpoint"
                     => /\ endpoints # <<>>
                        /\ Len(PostsOfCall(Len(passLog) + 1)) + Len(endpoints)
                              = (IF is_image(filepath) THEN 3 ELSE 2)
                        /\ \A j \in 1..Len(PostsOfCall(Len(passLog) + 1)) :
                              ~PostsOfCall(Len(passLog) + 1)[j].ok)
    /\ [][FailedPostGoesOn]_vars

C21_Witness ==
    /\ variant = "fixed"
    /\ pc = "finish"
    /\ filepath = "b.png"
    /\ success
    /\ Len(passLog) = 1
    /\ [j \in 1..Len(webLog) |-> webLog[j].url] = <<"images/", "raw/", "/">>
    /\ [j \in 1..Len(webLog) |-> webLog[j].ok] = <<FALSE, FALSE, TRUE>>

\* upload_via_ftp takes a step at the host it is at.
FtpActs == pc' # pc \/ host' # host

\* C22: upload_via_ftp tries its hosts in order: a failure at any step at
\* one host moves to the next host, the first host where the store completes
\* ends the call with success and no later host is contacted, and the call
\* fails only when every host has failed.
C22_FtpHostsInOrder ==
    /\ [](pc \in {"ftp", "ftpquit"}
            => host \in 1..Len(ftp_configs) /\ callLog = <<>>)
    /\ [][(pc = "ftp" /\ FtpActs)
            => \/ pc' = "ftpquit" /\ host' = host /\ filepath \in files
               \/ pc' = "ftp" /\ host' = host + 1
               \/ /\ host = Len(ftp_configs)
                  /\ callLog' = <<[m |-> "FTP", ok |-> FALSE]>>]_vars
    /\ [][(pc = "ftpquit" /\ FtpActs)
            => callLog' = <<[m |-> "FTP", ok |-> TRUE]>>]_vars

\* C23: once scp has copied an image, upload_file_ssh returns success
\* whatever the "latest" link command does: a non-zero exit, a timeout or
\* any other error of it never makes the call a failure.
C23_LinkFailureIgnored ==
    [][(pc = "link" /\ pc' # pc)
          => /\ success'
             /\ callLog' = <<[m |-> "SCP", ok |-> TRUE]>>]_vars

\* No method of the upload call log c returned success.
NoMethodSucceeded(c, ms) == \A m \in ms : ~MethodResult(c, m, TRUE)

\* C24: in data-uploader-fixed no file larger than the maximum size is ever
\* delivered: for such a file the FTP method and the Web method both report
\* failure, and upload_file never returns success.
C24_OversizeNeverDelivered ==
    (variant = "fixed" /\ filepath # "" /\ size[filepath] > MaxFileSizeMB("fixed"))
        => /\ NoMethodSucceeded(callLog, {"FTP", "Web"})
           /\ \A k \in 1..Len(passLog) :
                 NoMethodSucceeded(passLog[k], {"FTP", "Web"})
           /\ pc = "finish" => ~success

\* The same for the Web method alone.
OversizeNeverPosted ==
    (variant = "fixed" /\ filepath # "" /\ size[filepath] > MaxFileSizeMB("fixed"))
        => /\ NoMethodSucceeded(callLog, {"Web"})
           /\ \A k \in 1..Len(passLog) : NoMethodSucceeded(passLog[k], {"Web"})
           /\ webLog = <<>>

\* In the upload call log c no method comes before a method of higher
\* priority (FTP, then Web) was tried and failed in the same call.
HigherPriorityFailedFirst(c) ==
    \A j \in 1..Len(c) :
        c[j].m = "Web" => /\ j = 2
                          /\ c[1] = [m |-> "FTP", ok |-> FALSE]

\* C25: every call of upload_file the retry loop makes for an entry starts
\* again at FTP and goes on to Web only after FTP failed in that same call,
\* whatever the earlier calls for the entry ended as.
C25_EveryPassFromTheTop ==
    variant = "fixed"
        => /\ HigherPriorityFailedFirst(callLog)
           /\ \A k \in 1..Len(passLog) : HigherPriorityFailedFirst(passLog[k])
           /\ pc \in {"ftp", "ftpquit"}
                 => callLog = <<>> /\ methods = <<"FTP", "Web">>
           /\ pc \in {"web", "endpoint"}
                 => /\ callLog = <<[m |-> "FTP", ok |-> FALSE]>>
                    /\ methods = <<"Web">>

C25_Witness ==
    /\ variant = "fixed"
    /\ pc = "web"
    /\ attempt = 2
    /\ filepath \in files
    /\ passLog = <<FullFailedPass, FullFailedPass>>
    /\ callLog = <<[m |-> "FTP", ok |-> FALSE]>>

\* C26: in data-uploader-fixed a failed entry is written back unchanged and
\* carries no retry state into the next cycle: the next snapshot holds the
\* very line that failed, and an entry that fails again gets the same 3
\* upload calls and the same 2 delays of 60 seconds, however many earlier
\* cycles it failed in.
C26_FailedEntryCarriesNoState ==
    variant = "fixed"
        => /\ pc \notin {"idle", "noqueue"}
                 => \A j \in 1..Len(carried) :
                        /\ j <= Len(lines)
                        /\ SnapLine(j) = carried[j].line
                        /\ PrevCycles(j) = carried[j].cycles
           /\ \A n \in 0..MaxFailedCycles :
                 (JustEnded("failed") /\ PrevCycles(idx - 1) = n)
                     => /\ Len(passLog) = 3
                        /\ sleeps = 2
                        /\ slept = 2 * 60
                        /\ Last(remaining_lines) = SnapLine(idx - 1)

C26_Witness ==
    /\ variant = "fixed"
    /\ pc = "written"
    /\ lines = <<Entry3("b.png") \o <<NL>>>>
    /\ carried = <<[line |-> Entry3("b.png"), cycles |-> 2]>>
    /\ outcome = <<"failed">>
    /\ passLog = <<FullFailedPass, FullFailedPass, FullFailedPass>>
    /\ slept = 120
    /\ queue = Terminated(<<Entry3("b.png")>>)

\* The process is in its retry delay and a step is taken.
DuringDelay == pc = "sleep"

\* Nothing of the queue is serviced: the loop stays at the same entry, no
\* upload call starts or ends, nothing is kept, dropped or deleted, and the
\* delay ends in the next call for this entry.
NothingServiced ==
    /\ pc' \in {"sleep", "call"}
    /\ UNCHANGED <<lines, idx, line, filepath, remaining_lines, outcome,
                   keptIdx, callLog, passLog, webLog, success>>
    /\ files' \subseteq files
    /\ files \ files' \subseteq removed'

\* C27: in data-uploader-fixed and ssh-uploader the retry delay comes only
\* between two upload calls for the same entry: it follows a failed call that
\* is not the last of the budget (3 and 2 calls), so that k calls have k - 1
\* delays between them and none follows the last failed call or a successful
\* one; and while the process sleeps no other entry is serviced.
C27_DelayOnlyBetweenPasses ==
    /\ []((variant \in {"fixed", "ssh"} /\ filepath # "")
            => /\ pc = "sleep"
                     => /\ passLog # <<>>
                        /\ ~success
                        /\ Len(passLog) < (IF variant = "fixed" THEN 3 ELSE 2)
               /\ pc \in {"sleep", "finish"} => sleeps = Len(passLog) - 1
               /\ pc \in {"call", "ftp", "ftpquit", "web", "endpoint", "link"}
                     => sleeps = Len(passLog))
    /\ []((variant \in {"fixed", "ssh"} /\ JustEnded("delivered"))
            => sleeps = Len(passLog) - 1)
    /\ [][DuringDelay => NothingServiced]_vars

C27_Witness ==
    /\ variant = "fixed"
    /\ pc = "finish"
    /\ idx = 2
    /\ outcome = <<"failed">>
    /\ success
    /\ Len(passLog) = 2
    /\ sleeps = 1
    /\ passLog[1] = FullFailedPass

\* The ways the processing of a snapshot line ends in data-uploader-fixed.
Terminal == {"blank", "invalid", "missing", "delivered", "failed"}

\* C28: data-uploader-fixed processes the snapshot strictly in order, one
\* entry at a time: whenever the loop is at position idx every earlier
\* position has reached its terminal state and no later one has begun, the
\* entry being uploaded is the one at idx, and within its upload call at most
\* one method is in flight, every method before it having returned.
C28_StrictlySequential ==
    (variant = "fixed" /\ pc \notin {"idle", "noqueue"})
        => /\ Len(outcome) = idx - 1
           /\ idx <= Len(lines) + 1
           /\ \A i \in 1..Len(outcome) : outcome[i] \in Terminal
           /\ pc \in {"call", "ftp", "ftpquit", "web", "endpoint", "sleep",
                      "finish"}
                 => /\ idx <= Len(lines)
                    /\ line = SnapLine(idx)
                    /\ filepath = SnapPath(idx)
           /\ pc \in {"ftp", "ftpquit"}
                 => methods = <<"FTP", "Web">> /\ callLog = <<>>
           /\ pc \in {"web", "endpoint"}
                 => methods = <<"Web">> /\ Len(callLog) = 1
           /\ pc \notin {"ftp", "ftpquit", "web", "endpoint"}
                 => methods = <<>> /\ host = 1 /\ endpoints = <<>>

C28_Witness ==
    /\ variant = "fixed"
    /\ pc = "endpoint"
    /\ Len(lines) = 2
    /\ idx = 2
    /\ outcome = <<"failed">>
    /\ filepath = "b.png"
    /\ callLog = <<[m |-> "FTP", ok |-> FALSE]>>

\* C29: after a successful delivery data-uploader-fixed deletes the source
\* file if and only if it is not an image: a file get_file_info classifies
\* as an image (.png, .jpg, .jpeg, .gif, .bmp) is still there, every other
\* delivered file is gone.
C29_ImagesRetained ==
    variant = "fixed"
        => \A i \in 1..Len(outcome) :
               outcome[i] = "delivered"
                   => (SnapPath(i) \in files
                          <=> Ext(SnapPath(i)) \in {".png", ".jpg", ".jpeg",
                                                    ".gif", ".bmp"})

\* What the code does: a delivered file is kept if and only if its name
\* ends in .png, .jpg or .jpeg.
PngAndJpegRetained ==
    variant = "fixed"
        => \A i \in 1..Len(outcome) :
               outcome[i] = "delivered"
                   => (SnapPath(i) \in files
                          <=> Ext(SnapPath(i)) \in {".png", ".jpg", ".jpeg"})

\* The content hash of the metadata a log entry holds.
HashOf(e) ==
    IF e.fn = "prepare_metadata" THEN e.info[1].file_hash ELSE e.info[1].hash

\* C30: the metadata extractor returns complete metadata, content hash
\* included, or fails: when the file cannot be opened or read, get_file_info
\* and prepare_metadata report failure, and no post is made with a null
\* file_hash.
C30_MetadataCompleteOrFailure ==
    \A k \in 1..Len(infoLog) :
        /\ infoLog[k].info # <<>> => HashOf(infoLog[k]) # None
        /\ (infoLog[k].fn # "_try_web_upload" /\ ~infoLog[k].readable)
              => infoLog[k].info = <<>>
        /\ infoLog[k].posted => HashOf(infoLog[k]) # None

\* What holds: the extractors fail exactly when the file does not exist.
FailsOnlyWhenMissing ==
    \A k \in 1..Len(infoLog) :
        infoLog[k].fn # "_try_web_upload"
            => (infoLog[k].info = <<>> <=> infoLog[k].path \notin DOMAIN fsys)

\* The regular files of the directories cleanup_old_files scans.
ScannedFiles ==
    {p \in CleanPaths : DirOf(p) \in {"DATA_DIR", "IMAGES_DIR"} /\ p # "dir.raw"}

ToRemove ==
    {p \in CleanPaths :
        /\ \E k \in 1..Len(ScannedDirs(variant)) :
               p \in Listing(variant, ScannedDirs(variant)[k], CleanPaths)
        /\ ScanRemoves(variant, p, CleanPaths)}

\* C32: a removal that fails (permission denied, file already gone) does
\* not end the scan, in cleanup_old_files and in cleanup_old_data: when the
\* scan returns every name was examined and every file the rule names, other
\* than those whose removal failed, has been deleted.
C32_FailedRemovalGoesOn ==
    pc = "cleaned"
        => /\ ~scan.aborted
           /\ scan.attempted = ToRemove
           /\ ToRemove \ scan.denied \subseteq scan.deleted

\* The same for cleanup_old_files alone.
FixedScanGoesOn == variant = "fixed" => C32_FailedRemovalGoesOn

\* C33: every iteration of the daemon loop runs the queue pass, then the
\* cleanup, then the sleep: the cleanup starts only when the pass has
\* returned, the sleep only when the cleanup has run, and a pass only after
\* the sleep (or in a process started afresh after a kill), in
\* data-uploader-fixed and in ssh-uploader.
C33_PassCleanupSleep ==
    /\ [][(pc' = "cleanup" /\ pc # "cleanup")
            => pc \in {"written", "noqueue", "aborted"}]_vars
    /\ [][(pc' = "dsleep" /\ pc # "dsleep") => pc = "cleanup"]_vars
    /\ [][(pc' = "idle" /\ pc # "idle") => (pc = "dsleep" \/ Crash)]_vars

\* The same for data-uploader-fixed alone; and there the cleanup follows a
\* write-back whenever the pass took a snapshot and no exception ended it.
FixedLoopInOrder ==
    /\ [][variant = "fixed"
            => /\ (pc' = "cleanup" /\ pc # "cleanup")
                     => pc \in {"written", "noqueue", "aborted"}
               /\ (pc' = "dsleep" /\ pc # "dsleep") => pc = "cleanup"
               /\ (pc' = "idle" /\ pc # "idle") => (pc = "dsleep" \/ Crash)]_vars
    /\ [][(variant = "fixed" /\ pc \in InPass /\ pc' \notin InPass
           /\ daemon' = "running" /\ ~Crash)
            => pc' \in {"written", "aborted"}]_vars

\* C34: an exception raised by a method during upload_file counts exactly
\* like a False result of that method. FTP fails by exceptions only: when
\* its last host has raised, Web is tried next in the same call. An
\* exception that leaves the Web method ends the call like a failed Web
\* method: the call is logged as failed, the retry loop gets a plain False
\* (the delay or the end of the budget follows), and the entry is not ended
\* by the exception.
C34_MethodErrorIsFailure ==
    /\ [][(variant = "fixed" /\ pc \in {"ftp", "ftpquit"} /\ callLog' # callLog
           /\ ~Last(callLog').ok)
            => /\ callLog' = <<[m |-> "FTP", ok |-> FALSE]>>
               /\ methods' = <<"Web">>
               /\ pc' = "web"
               /\ UNCHANGED <<outcome, idx, passLog>>]_vars
    /\ [][(variant = "fixed" /\ escaped' \ escaped # {})
            => /\ callLog' = Append(callLog, [m |-> "Web", ok |-> FALSE])
               /\ passLog' = Append(passLog, callLog')
               /\ ~success'
               /\ pc' = (IF attempt < 2 THEN "sleep" ELSE "finish")
               /\ UNCHANGED <<outcome, idx, remaining_lines, files>>]_vars

C34_Witness ==
    /\ variant = "fixed"
    /\ pc = "finish"
    /\ success
    /\ escaped = {<<1, 1, "Web">>}
    /\ idx = 1
    /\ passLog = <<FullFailedPass, <<[m |-> "FTP", ok |-> TRUE]>>>>

\* C40: an exception raised while an entry is processed, after its line was
\* parsed, neither drops the entry nor ends the pass (data-uploader-fixed and
\* data-uploader): the line is kept and is in the rewritten queue, the loop
\* goes on with the next line, and every line of the snapshot has been
\* processed when the queue is written back.
C40_EntryErrorKeepsEntry ==
    /\ [](variant \in {"fixed", "data"}
            => /\ pc # "aborted"
               /\ \A i \in 1..Len(outcome) :
                     outcome[i] = "error"
                         => /\ i \in Range(keptIdx)
                            /\ SnapLine(i) \in Range(remaining_lines)
                            /\ pc = "written"
                                  => SnapLine(i) \in Range(LoadAll(queue))
               /\ pc \in {"writeback", "written"} => Len(outcome) = Len(lines))
    /\ [][(variant \in {"fixed", "data"} /\ outcome' = Append(outcome, "error"))
            => /\ pc' = "loop"
               /\ idx' = idx + 1
               /\ remaining_lines' = Append(remaining_lines, line)
               /\ UNCHANGED <<lines, files, queue>>]_vars

C40_Witness ==
    /\ variant = "fixed"
    /\ pc = "written"
    /\ outcome = <<"error", "delivered">>
    /\ lines = <<Entry3("b.png") \o <<NL>>, Entry3("a.raw") \o <<NL>>>>
    /\ queue = Terminated(<<Entry3("b.png")>>)
    /\ "a.raw" \notin files

\* The paths named by the well-formed lines of the persisted queue.
PendingPaths(text) ==
    {PathField(split(l)) : l \in {m \in Range(LoadAll(text)) : Len(split(m)) >= 3}}

\* C36: the uploader never deletes the source file of an entry that is
\* pending in the persisted queue: a file that cleanup_old_files removes is
\* named by no line of the queue file.
C36_CleanupSparesPending ==
    [][pc = "cleanup" => (files \ files') \cap PendingPaths(queue) = {}]_vars

\* The pass of data-uploader-fixed on its own removes a file only in the
\* step that ends a delivered entry naming it.
PassDeletesOnlyDelivered ==
    [][(pc \in InPass /\ files' # files /\ removed' = removed)
          => /\ pc = "finish"
             /\ success
             /\ files \ files' = {filepath}
             /\ outcome' = Append(outcome, "delivered")]_vars

\* C37: a pass deletes a source file only for the delivered entry naming it:
\* the file of an entry that ended failed, was dropped as malformed or was
\* kept after an exception is not among the files the pass deleted.
C37_UndeliveredFileKept ==
    variant \in {"fixed", "ssh", "data"}
        => \A i \in 1..Len(outcome) :
              outcome[i] \in {"failed", "invalid", "error"}
                  => SnapPath(i) \notin deleted

\* Every file a pass deleted is named by one of its delivered entries.
DeletedWasDelivered ==
    \A p \in deleted :
        \E i \in 1..Len(outcome) : outcome[i] = "delivered" /\ SnapPath(i) = p

\* A failed entry whose file the pass deleted for a later entry of the same
\* path.
FailedThenDeleted ==
    /\ Len(outcome) = 2
    /\ outcome = <<"failed", "delivered">>
    /\ SnapLine(1) = Entry3("a.raw")
    /\ "a.raw" \in deleted

\* C38: in simple-satellite-uploader a well-formed entry whose file exists
\* leaves the queue only after a delivery: when the queue was rewritten,
\* every such entry that was not written back ended as delivered.
C38_SimpleLeavesOnlyDelivered ==
    (variant = "simple" /\ pc = "written")
        => \A i \in 1..Len(outcome) :
              (/\ outcome[i] \notin {"blank", "invalid", "missing"}
               /\ i \notin Range(keptIdx))
                  => outcome[i] = "delivered"

\* simple-satellite-uploader never calls a transport: no upload is logged.
SimpleUploadsNothing ==
    variant = "simple" => callLog = <<>> /\ passLog = <<>> /\ webLog = <<>>

\* The posts of call k of the current entry go to pairwise different URLs.
OnePostPerEndpoint(k) ==
    LET s == PostsOfCall(k)
    IN \A i, j \in 1..Len(s) : s[i].url = s[j].url => i = j

\* C39: one cycle of data-uploader-fixed over a finite snapshot terminates
\* when every transport call returns: an entry gets at most R = 3 calls of
\* upload_file, a call tries each FTP host at most once (the host index
\* only moves forward, up to the last host) and posts to each endpoint at
\* most once, and every pass that started its loop reaches the write-back.
C39_CycleTerminates ==
    /\ [](variant = "fixed"
            => /\ Len(passLog) <= RetryAttempts(variant)
               /\ attempt < RetryAttempts(variant)
               /\ sleeps < RetryAttempts(variant)
               /\ host \in 1..Len(ftp_configs)
               /\ \A k \in 1..(Len(passLog) + 1) : OnePostPerEndpoint(k))
    /\ [][(pc \in {"ftp", "ftpquit"} /\ pc' = "ftp") => host' = host + 1]_vars
    /\ [][(pc = "ftp" /\ pc' = "ftpquit") => host' = host]_vars
    /\ (pc = "loop") ~> (pc = "written")

C39_Witness ==
    /\ variant = "fixed"
    /\ pc = "written"
    /\ Len(outcome) = 2
    /\ outcome[2] = "failed"
    /\ is_image(SnapPath(2))
    /\ passLog = <<FullFailedPass, FullFailedPass, FullFailedPass>>
    /\ Len(webLog) = 9
    /\ sleeps = 2

\* The entries each of the two processes delivered in its pass.
DeliveredHere ==
    {SnapLine(i) : i \in {j \in 1..Len(outcome) : outcome[j] = "delivered"}}

DeliveredByPeer ==
    {strip(peer.lines[i]) :
        i \in {j \in 1..Len(peer.outcome) : peer.outcome[j] = "delivered"}}

\* Both processes have written the queue back.
PairDone == pc = "written" /\ peer.pc = "written"

\* The two passes did not overlap: the second process read and wrote before
\* the first read, or read after the first had written.
OneAfterTheOther ==
    \/ peer.began = "before" /\ peer.ended = "before"
    \/ peer.began = "after"

\* C35: the single-instance guarantees break through concurrency and
\* through nothing else: when the two passes ran one after the other, no
\* entry was delivered by both processes and no delivered entry is in the
\* queue file; the witness is an overlapping run with both breaks.
C35_OnlyOverlapBreaks ==
    (PairDone /\ OneAfterTheOther)
        => /\ DeliveredHere \cap DeliveredByPeer = {}
           /\ Range(LoadAll(queue)) \cap (DeliveredHere \cup DeliveredByPeer) = {}

\* The entry of b.png was delivered by both processes; the entry of a.raw
\* was delivered by one and written back by the other.
C35_Witness ==
    /\ PairDone
    /\ Entry3("b.png") \in DeliveredHere \cap DeliveredByPeer
    /\ Entry3("a.raw") \in DeliveredHere \cup DeliveredByPeer
    /\ Entry3("a.raw") \in Range(LoadAll(queue))

\* A run in which one entry was delivered by both processes.
DeliveredTwice == PairDone /\ DeliveredHere \cap DeliveredByPeer # {}

\* A run in which an entry one process delivered is in the queue the other
\* wrote.
DeliveredWrittenBack ==
    /\ PairDone
    /\ Range(LoadAll(queue)) \cap (DeliveredHere \cup DeliveredByPeer) # {}

====
